---- MODULE Spec2Model ----
(***************************************************************************)
(* The Rehearsal AI: the browser dialogue engine (appState, Scenarios-     *)
(* Module, ConversationModule and their timers), the in-memory             *)
(* conversation server, the analysis-response parser and the Nathan-level  *)
(* score, each as a state machine or a pure operator.                      *)
(***************************************************************************)
EXTENDS Integers, Sequences, FiniteSets, TLC

(***************************************************************************)
(* Bounds of the model.                                                    *)
(***************************************************************************)
\* selectScenario calls with a known id (caps rehearsalAttempts)
MaxAttempts == 2
\* length of conversationHistory
MaxHistory == 3
\* pending setTimeout callbacks
MaxTimers == 2

(***************************************************************************)
(* Timer delays, in units of 500 ms.                                       *)
(***************************************************************************)
\* CONFIG.SCENE_TRANSITION = 1000
SCENE_TRANSITION == 2
\* CONFIG.CHOICE_DELAY = 3000
CHOICE_DELAY == 6
\* displayScene: showCharacterDialogue after 1500
DIALOGUE_DELAY == 3
\* displayScene: endConversation after 2000
END_DELAY == 4

(***************************************************************************)
(* Scenario data (public/data/scenarios.json): Scenario, Scene, Choice.    *)
(* A choice's impact is the set of its <<stat, delta>> entries; a choice    *)
(* without impact has none (makeChoice treats both alike).                 *)
(***************************************************************************)
StatNames == {"empathy", "trust", "effectiveness"}

NULL == "null"

NoImpact == {}

Choice(text, impact, next, isEnd) ==
    [text |-> text, impact |-> impact, next |-> next, isEnd |-> isEnd]

Scene(id, dialogue, choices, isBreakthrough, isEnd, outcome) ==
    [id |-> id, dialogue |-> dialogue, choices |-> choices,
     isBreakthrough |-> isBreakthrough, isEnd |-> isEnd, outcome |-> outcome]

Scenarios ==
    [ checkin |->
        [ title |-> "Checking on a Friend",
          scenes |-> <<
            Scene("intro", FALSE,
                  << Choice("ask", {<<"empathy", 2>>, <<"trust", 15>>}, "listen", FALSE),
                     Choice("lecture", {<<"empathy", -100>>, <<"trust", -1>>}, "missing", FALSE),
                     Choice("hug", NoImpact, "success", FALSE) >>,
                  FALSE, FALSE, ""),
            Scene("listen", TRUE,
                  << Choice("stay", {<<"effectiveness", 1>>}, "good_end", FALSE),
                     Choice("leave", {<<"trust", -3>>}, "bad_end", FALSE) >>,
                  TRUE, FALSE, ""),
            Scene("good_end", FALSE, <<>>, FALSE, TRUE, "success"),
            Scene("bad_end", FALSE, <<>>, FALSE, TRUE, "failure") >> ],
      crisis |->
        [ title |-> "Crisis Response",
          scenes |-> <<
            Scene("opening", FALSE,
                  << Choice("stay calm", {<<"empathy", 1>>}, "close", FALSE),
                     Choice("call", {<<"effectiveness", 11>>}, "gone", TRUE) >>,
                  TRUE, FALSE, ""),
            Scene("close", FALSE, <<>>, FALSE, TRUE, "success") >> ] ]

ScenarioIds == DOMAIN Scenarios

\* ids a caller may pass to selectScenario: the known ones and an unknown one
RequestedIds == ScenarioIds \cup {"unknown"}

\* keys every object literal inherits from Object.prototype: scenarios[key]
\* is defined for them although the table has no such scenario
ObjectPrototypeKeys == {"constructor", "__proto__", "toString"}

\* ids passed to selectScenario where the attempts are counted: a known one,
\* an unknown one and one that names an inherited function
AttemptIds == {"crisis", "unknown", "constructor"}

\* Number(function) + 1, what ++ stores for an inherited function: not a
\* number, written as a value no counter takes
NaN == -1

\* Array.prototype.find over scenes by id: the index of the first match, 0
\* when there is none (undefined)
FindScene(scenes, id) ==
    IF \E i \in 1..Len(scenes) : scenes[i].id = id
    THEN CHOOSE i \in 1..Len(scenes) :
            /\ scenes[i].id = id
            /\ \A j \in 1..(i - 1) : scenes[j].id # id
    ELSE 0

\* the scene object with this id in scenario scn
SceneOf(scn, id) == Scenarios[scn].scenes[FindScene(Scenarios[scn].scenes, id)]

VARIABLES
    currentScenario,      \* appState.currentScenario (NULL or a scenario id)
    currentScene,         \* appState.currentScene ("0" is the number 0)
    playerStats,          \* appState.playerStats
    conversationHistory,  \* appState.conversationHistory
    breakthroughs,        \* appState.breakthroughs
    rehearsalAttempts,    \* appState.rehearsalAttempts (0: no entry)
    storyScene,           \* DOM: the scene whose text is in #storyText
    choiceButtons,        \* DOM: the choice buttons in #choices
    dialogue,             \* DOM: #characterDialogue
    completion,           \* DOM: the completion analysis in .story-container
    interfaceVisible,     \* DOM: #conversationInterface is displayed
    timers,               \* pending setTimeout callbacks, in scheduling order
    last,                 \* the step just taken: operation, timer, outcome
    choicesMade,          \* makeChoice calls since the run started
    endCalls,             \* endConversation calls since the run started
    conversations,        \* server.js: the conversations Map, by id 1..n
    response,             \* server.js: the response to the last request
    request,              \* server.js: the last request received
    analysisShape,        \* how the analysis response at hand was laid out
    analysisResponse,     \* the response text given to parseAnalysisResponse
    analysisResult,       \* what parseAnalysisResponse returned for it
    nathanCalls,          \* the calculateNathanLevel calls made, in order
    enhancement,          \* the enhanceScript call made: request, prompt, result
    handled,              \* the errors given to errorHandler, with its responses
    authLog,              \* the requests given to authenticateToken, with outcomes
    scripts,              \* prisma.script: the stored script rows, by id
    scriptEnhancements,   \* prisma.scriptEnhancement: the rows, in creation order
    scriptAnalyses,       \* prisma.scriptAnalysis: the rows, in creation order
    requests,             \* the /api/scripts requests in flight or answered
    turn                  \* the request whose handler took the last step

uiVars == <<currentScenario, currentScene, playerStats, conversationHistory,
            breakthroughs, rehearsalAttempts, storyScene, choiceButtons,
            dialogue, completion, interfaceVisible, timers, last,
            choicesMade, endCalls>>

serverVars == <<conversations, response, request>>

parserVars == <<analysisShape, analysisResponse, analysisResult>>

scoreVars == <<nathanCalls>>

enhancerVars == <<enhancement>>

errorVars == <<handled>>

authVars == <<authLog>>

scriptsVars == <<scripts, scriptEnhancements, scriptAnalyses, requests, turn>>

backendVars == <<enhancerVars, errorVars, authVars, scriptsVars>>

vars == <<uiVars, serverVars, parserVars, scoreVars, backendVars>>

\* what the dialogue engine leaves alone
nonUiVars == <<serverVars, parserVars, scoreVars, backendVars>>

\* what the conversation server leaves alone
nonServerVars == <<uiVars, parserVars, scoreVars, backendVars>>

\* what parseAnalysisResponse leaves alone
nonParserVars == <<uiVars, serverVars, scoreVars, backendVars>>

\* what calculateNathanLevel leaves alone
nonScoreVars == <<uiVars, serverVars, parserVars, backendVars>>

frontVars == <<uiVars, serverVars, parserVars, scoreVars>>

\* what enhanceScript leaves alone
nonEnhancerVars == <<frontVars, errorVars, authVars, scriptsVars>>

\* what errorHandler leaves alone
nonErrorVars == <<frontVars, enhancerVars, authVars, scriptsVars>>

\* what authenticateToken leaves alone
nonAuthVars == <<frontVars, enhancerVars, errorVars, scriptsVars>>

\* what the scripts routes leave alone
nonScriptsVars == <<frontVars, enhancerVars, errorVars, authVars>>

\* the number of selectScenario calls so far identifies the run
RECURSIVE SumOver(_, _)
SumOver(f, S) ==
    IF S = {} THEN 0
    ELSE LET x == CHOOSE y \in S : TRUE IN f[x] + SumOver(f, S \ {x})

Run == SumOver(rehearsalAttempts, ScenarioIds)

Step(op, kind, run, threw, ok) ==
    [op |-> op, kind |-> kind, run |-> run, threw |-> threw, ok |-> ok]

Timer(kind, scn, scene, cap, ok, left, run) ==
    [kind |-> kind, scn |-> scn, scene |-> scene, cap |-> cap, ok |-> ok,
     left |-> left, run |-> run]

NoScene == [scn |-> NULL, scene |-> NULL]

NoCompletion == [shown |-> FALSE]

\* config.js appState literal, then initializeAppState on DOMContentLoaded
InitUI ==
    /\ currentScenario = NULL
    /\ currentScene = "0"
    /\ playerStats = [empathy |-> 5, trust |-> 5, effectiveness |-> 5]
    /\ conversationHistory = <<>>
    /\ breakthroughs = <<>>
    /\ rehearsalAttempts = [s \in ScenarioIds |-> 0]
    /\ storyScene = NoScene
    /\ choiceButtons = NoScene
    /\ dialogue = [active |-> FALSE, scn |-> NULL, scene |-> NULL]
    /\ completion = NoCompletion
    /\ interfaceVisible = FALSE
    /\ timers = <<>>
    /\ last = Step("init", "", 0, FALSE, FALSE)
    /\ choicesMade = 0
    /\ endCalls = 0

(***************************************************************************)
(* ConversationModule                                                      *)
(***************************************************************************)
Delay(kind) ==
    CASE kind = "displayScene" -> SCENE_TRANSITION
      [] kind = "endChoice" -> SCENE_TRANSITION
      [] kind = "dialogue" -> DIALOGUE_DELAY
      [] kind = "choices" -> CHOICE_DELAY
      [] kind = "endScene" -> END_DELAY

\* displayScene(scene) with appState.currentScenario = cur: what it leaves in
\* the DOM, the timers it schedules and the breakthrough it records.
\* recordBreakthrough reads scenarios[currentScenario].title, a TypeError when
\* currentScenario is null: the throw ends displayScene before the isEnd check.
DisplayScene(scn, id, cur, bts, tms, run) ==
    LET scene == SceneOf(scn, id)
        t1 == IF scene.dialogue
              THEN Append(tms, Timer("dialogue", scn, id, cur, FALSE, DIALOGUE_DELAY, run))
              ELSE tms
        t2 == IF Len(scene.choices) > 0
              THEN Append(t1, Timer("choices", scn, id, NULL, FALSE, CHOICE_DELAY, run))
              ELSE t1
        throws == scene.isBreakthrough /\ cur = NULL
        b1 == IF scene.isBreakthrough /\ cur # NULL
              THEN Append(bts, [scenario |-> cur, scene |-> id])
              ELSE bts
        t3 == IF scene.isEnd /\ ~throws
              THEN Append(t2, Timer("endScene", scn, id, NULL,
                                    scene.outcome = "success", END_DELAY, run))
              ELSE t2
    IN  [story |-> [scn |-> scn, scene |-> id], buttons |-> NoScene,
         timers |-> t3, breakthroughs |-> b1, threw |-> throws]

\* the clamp without its upper limit
ClampNoUpper(v) == IF v < 0 THEN 0 ELSE v

\* Math.max(0, Math.min(10, v))
Clamp(v) == IF v > 10 THEN 10 ELSE IF v < 0 THEN 0 ELSE v

\* choice.impact applied entry by entry
ApplyImpact(stats, impact) ==
    [s \in StatNames |->
        IF \E e \in impact : e[1] = s
        THEN Clamp(stats[s] + (CHOOSE e \in impact : e[1] = s)[2])
        ELSE stats[s]]

\* the summary endConversation builds from appState
Summary(isSuccess) ==
    [shown |-> TRUE, success |-> isSuccess, scenario |-> currentScenario,
     attempts |-> IF rehearsalAttempts[currentScenario] \in {0, NaN} THEN 1
                  ELSE rehearsalAttempts[currentScenario],
     total |-> playerStats.empathy + playerStats.trust + playerStats.effectiveness,
     empathy |-> playerStats.empathy, trust |-> playerStats.trust,
     effectiveness |-> playerStats.effectiveness,
     conversations |-> Len(conversationHistory),
     breakthroughs |-> Len(breakthroughs)]

\* endConversation(isSuccess), reached from a timer: scenario.title is a
\* TypeError when currentScenario is null, before anything is shown
EndConversation(isSuccess, t) ==
    /\ IF currentScenario = NULL
       THEN /\ last' = Step("fire", t.kind, t.run, TRUE, t.ok)
            /\ UNCHANGED <<completion, endCalls>>
       ELSE /\ completion' = Summary(isSuccess)
            /\ endCalls' = endCalls + 1
            /\ last' = Step("fire", t.kind, t.run, FALSE, t.ok)
    /\ UNCHANGED <<currentScenario, currentScene, playerStats,
                   conversationHistory, breakthroughs, rehearsalAttempts,
                   storyScene, choiceButtons, dialogue, interfaceVisible,
                   choicesMade>>

\* the push that forgets the earlier entries
RecordChoiceOverwrites(history, scene, choice) ==
    <<[scene |-> scene, choice |-> choice.text, impact |-> choice.impact]>>

\* conversationHistory.push({scene, choice, impact, timestamp}); the
\* timestamp (new Date()) is left out
RecordChoice(history, scene, choice) ==
    Append(history,
           [scene |-> scene, choice |-> choice.text, impact |-> choice.impact])

\* makeChoice(choice), from a click or a number key on a displayed button
MakeChoice ==
    /\ UNCHANGED nonUiVars
    /\ choiceButtons # NoScene
    /\ Len(conversationHistory) < MaxHistory
    /\ Len(timers) < MaxTimers
    /\ \E i \in 1..Len(SceneOf(choiceButtons.scn, choiceButtons.scene).choices) :
        LET choice == SceneOf(choiceButtons.scn, choiceButtons.scene).choices[i]
            found == IF currentScenario \notin ScenarioIds THEN 0
                     ELSE FindScene(Scenarios[currentScenario].scenes, choice.next)
        IN  /\ conversationHistory' =
                    RecordChoice(conversationHistory, currentScene, choice)
            /\ playerStats' = ApplyImpact(playerStats, choice.impact)
            /\ choiceButtons' = NoScene
            /\ dialogue' = [dialogue EXCEPT !.active = FALSE]
            /\ choicesMade' = choicesMade + 1
            /\ IF currentScenario \notin ScenarioIds
               THEN \* scenario.scenes, or scenes.find of an inherited
                    \* function: TypeError, nothing scheduled
                    /\ last' = Step("makeChoice", "", Run, TRUE, FALSE)
                    /\ UNCHANGED <<currentScene, timers>>
               ELSE /\ last' = Step("makeChoice", "", Run, FALSE, FALSE)
                    /\ IF found # 0
                       THEN /\ currentScene' = choice.next
                            /\ timers' = Append(timers,
                                   Timer("displayScene", currentScenario, choice.next,
                                         NULL, FALSE, SCENE_TRANSITION, Run))
                       ELSE /\ UNCHANGED currentScene
                            /\ timers' = Append(timers,
                                   Timer("endChoice", NULL, NULL, NULL,
                                         choice.next = "success" \/ choice.isEnd,
                                         SCENE_TRANSITION, Run))
    /\ UNCHANGED <<currentScenario, breakthroughs, rehearsalAttempts, storyScene,
                   completion, interfaceVisible, endCalls>>

\* a due timer runs its callback; timers of one delay run in scheduling order
Fire ==
    /\ UNCHANGED nonUiVars
    /\ \E i \in 1..Len(timers) :
        LET t == timers[i]
            rest == SubSeq(timers, 1, i - 1) \o SubSeq(timers, i + 1, Len(timers))
        IN  /\ t.left = 0
            /\ \A j \in 1..(i - 1) :
                    ~(timers[j].left = 0 /\ Delay(timers[j].kind) = Delay(t.kind))
            /\ CASE t.kind = "displayScene" ->
                    LET r == DisplayScene(t.scn, t.scene, currentScenario,
                                          breakthroughs, rest, t.run)
                    IN  /\ storyScene' = r.story
                        /\ choiceButtons' = r.buttons
                        /\ timers' = r.timers
                        /\ breakthroughs' = r.breakthroughs
                        /\ last' = Step("fire", t.kind, t.run, r.threw, t.ok)
                        /\ UNCHANGED <<currentScenario, currentScene, playerStats,
                                       conversationHistory, rehearsalAttempts,
                                       dialogue, completion, interfaceVisible,
                                       choicesMade, endCalls>>
                 [] t.kind = "dialogue" ->
                    \* showCharacterDialogue(scenario.character, scene) with the
                    \* scenario displayScene captured: a TypeError when it was null
                    /\ timers' = rest
                    /\ IF t.cap = NULL
                       THEN /\ last' = Step("fire", t.kind, t.run, TRUE, t.ok)
                            /\ UNCHANGED dialogue
                       ELSE IF t.cap \notin ScenarioIds
                       THEN \* an inherited function has no character: the
                            \* container is activated, character.avatar throws
                            /\ last' = Step("fire", t.kind, t.run, TRUE, t.ok)
                            /\ dialogue' = [dialogue EXCEPT !.active = TRUE]
                       ELSE /\ last' = Step("fire", t.kind, t.run, FALSE, t.ok)
                            /\ dialogue' = [active |-> TRUE, scn |-> t.cap,
                                            scene |-> t.scene]
                    /\ UNCHANGED <<currentScenario, currentScene, playerStats,
                                   conversationHistory, breakthroughs,
                                   rehearsalAttempts, storyScene, choiceButtons,
                                   completion, interfaceVisible, choicesMade,
                                   endCalls>>
                 [] t.kind = "choices" ->
                    \* displayChoices(scene.choices)
                    /\ timers' = rest
                    /\ choiceButtons' = [scn |-> t.scn, scene |-> t.scene]
                    /\ last' = Step("fire", t.kind, t.run, FALSE, t.ok)
                    /\ UNCHANGED <<currentScenario, currentScene, playerStats,
                                   conversationHistory, breakthroughs,
                                   rehearsalAttempts, storyScene, dialogue,
                                   completion, interfaceVisible, choicesMade,
                                   endCalls>>
                 [] t.kind \in {"endChoice", "endScene"} ->
                    /\ timers' = rest
                    /\ EndConversation(t.ok, t)

\* 500 ms pass with no timer due
Tick ==
    /\ UNCHANGED nonUiVars
    /\ timers # <<>>
    /\ \A i \in 1..Len(timers) : timers[i].left > 0
    /\ timers' = [i \in 1..Len(timers) |->
                    [timers[i] EXCEPT !.left = timers[i].left - 1]]
    /\ last' = Step("tick", "", Run, FALSE, FALSE)
    /\ UNCHANGED <<currentScenario, currentScene, playerStats,
                   conversationHistory, breakthroughs, rehearsalAttempts,
                   storyScene, choiceButtons, dialogue, completion,
                   interfaceVisible, choicesMade, endCalls>>

(***************************************************************************)
(* ScenariosModule                                                         *)
(***************************************************************************)
\* startConversation(scenario): the scene 'intro', or else the first scene
FirstScene(scn) ==
    LET scenes == Scenarios[scn].scenes
    IN  IF FindScene(scenes, "intro") # 0 THEN "intro" ELSE scenes[1].id

\* the reset that keeps the stats of the previous run
StatsNotReset == playerStats

\* appState.playerStats = { empathy: 0, trust: 0, effectiveness: 0 }
ResetStats == [empathy |-> 0, trust |-> 0, effectiveness |-> 0]

\* selectScenario(scenarioId) for a known id, with startConversation
StartScenario(scenarioId, op) ==
    LET r == DisplayScene(scenarioId, FirstScene(scenarioId), scenarioId,
                          <<>>, timers, Run + 1)
    IN  /\ Run < MaxAttempts
        /\ Len(timers) < MaxTimers
        /\ currentScenario' = scenarioId
        /\ currentScene' = "intro"
        /\ playerStats' = ResetStats
        /\ conversationHistory' = <<>>
        /\ breakthroughs' = r.breakthroughs
        /\ rehearsalAttempts' = [rehearsalAttempts EXCEPT ![scenarioId] = @ + 1]
        /\ interfaceVisible' = TRUE
        /\ storyScene' = r.story
        /\ choiceButtons' = r.buttons
        /\ timers' = r.timers
        /\ last' = Step(op, "", Run + 1, r.threw, FALSE)
        /\ choicesMade' = 0
        /\ endCalls' = 0
        /\ UNCHANGED <<dialogue, completion>>

\* if (!rehearsalAttempts[id]) rehearsalAttempts[id] = 0; rehearsalAttempts[id]++
\* for an id the object has no own count for: the inherited function is
\* truthy and ++ stores NaN; NaN is falsy, so the next call stores 1
CountAttempt(attempts, scenarioId) ==
    IF scenarioId \notin DOMAIN attempts
    THEN (scenarioId :> NaN) @@ attempts
    ELSE [attempts EXCEPT ![scenarioId] = IF @ = NaN THEN 1 ELSE @ + 1]

\* selectScenario(scenarioId) for a key appState.scenarios inherits:
\* scenarios[scenarioId] is a function, so the guard passes, the run state
\* is reset, and startConversation throws at scenario.scenes.find
StartInherited(scenarioId, op) ==
    /\ scenarioId \in DOMAIN rehearsalAttempts
            => rehearsalAttempts[scenarioId] < MaxAttempts
    /\ currentScenario' = scenarioId
    /\ currentScene' = "intro"
    /\ playerStats' = ResetStats
    /\ conversationHistory' = <<>>
    /\ breakthroughs' = <<>>
    /\ rehearsalAttempts' = CountAttempt(rehearsalAttempts, scenarioId)
    /\ interfaceVisible' = TRUE
    /\ last' = Step(op, "", Run, TRUE, FALSE)
    /\ choicesMade' = 0
    /\ endCalls' = 0
    /\ UNCHANGED <<storyScene, choiceButtons, dialogue, completion, timers>>

\* selectScenario(scenarioId) for an id drawn from ids
Select(ids) ==
    \E scenarioId \in ids :
        IF scenarioId \in ScenarioIds
        THEN StartScenario(scenarioId, "selectScenario")
        ELSE IF scenarioId \in ObjectPrototypeKeys
        THEN StartInherited(scenarioId, "selectScenario")
        ELSE \* alert('Scenario not found'), return
             /\ last' = Step("selectScenario", "alert", Run, FALSE, FALSE)
             /\ UNCHANGED <<currentScenario, currentScene, playerStats,
                            conversationHistory, breakthroughs,
                            rehearsalAttempts, storyScene, choiceButtons,
                            dialogue, completion, interfaceVisible, timers,
                            choicesMade, endCalls>>

SelectScenario ==
    /\ UNCHANGED nonUiVars
    /\ Select(RequestedIds)

\* selectScenario from window.selectScenario or the ?scenario= parameter
SelectAttempt ==
    /\ UNCHANGED nonUiVars
    /\ Select(AttemptIds)

\* tryAgain(): the completion button, or Ctrl+R
TryAgain ==
    /\ UNCHANGED nonUiVars
    /\ currentScenario # NULL
    /\ IF currentScenario \in ScenarioIds
       THEN StartScenario(currentScenario, "tryAgain")
       ELSE StartInherited(currentScenario, "tryAgain")

\* showScenarioSelection(): Ctrl+S, Escape, or the completion button
ShowScenarioSelection ==
    /\ UNCHANGED nonUiVars
    /\ interfaceVisible' = FALSE
    /\ currentScenario' = NULL
    /\ currentScene' = "0"
    /\ conversationHistory' = <<>>
    /\ last' = Step("showScenarioSelection", "", Run, FALSE, FALSE)
    /\ UNCHANGED <<playerStats, breakthroughs, rehearsalAttempts, storyScene,
                   choiceButtons, dialogue, completion, timers, choicesMade,
                   endCalls>>


(***************************************************************************)
(* server.js: strings, crisis detection and the heuristic responder.       *)
(* Strings are TLA+ strings, read character by character with SubSeq.      *)
(***************************************************************************)
\* conversations the server may hold
MaxConversations == 2
\* accepted message requests, over all conversations
MaxRequests == 2

UpperLetters == "ABCDEFGHIJKLMNOPQRSTUVWXYZ"

LowerLetters == "abcdefghijklmnopqrstuvwxyz"

CharAt(s, i) == SubSeq(s, i, i)

LowerChar(c) ==
    IF \E i \in 1..26 : CharAt(UpperLetters, i) = c
    THEN CharAt(LowerLetters, CHOOSE i \in 1..26 : CharAt(UpperLetters, i) = c)
    ELSE c

UpperChar(c) ==
    IF \E i \in 1..26 : CharAt(LowerLetters, i) = c
    THEN CharAt(UpperLetters, CHOOSE i \in 1..26 : CharAt(LowerLetters, i) = c)
    ELSE c

\* String.prototype.toLowerCase, a half of the string at a time
RECURSIVE ToLowerCase(_)
ToLowerCase(s) ==
    IF Len(s) = 0 THEN ""
    ELSE IF Len(s) = 1 THEN LowerChar(s)
    ELSE ToLowerCase(SubSeq(s, 1, Len(s) \div 2))
         \o ToLowerCase(SubSeq(s, Len(s) \div 2 + 1, Len(s)))

\* String.prototype.toUpperCase (used to build inputs)
RECURSIVE ToUpperCase(_)
ToUpperCase(s) ==
    IF Len(s) = 0 THEN ""
    ELSE IF Len(s) = 1 THEN UpperChar(s)
    ELSE ToUpperCase(SubSeq(s, 1, Len(s) \div 2))
         \o ToUpperCase(SubSeq(s, Len(s) \div 2 + 1, Len(s)))

\* String.prototype.includes
Includes(s, k) ==
    \E i \in 0..(Len(s) - Len(k)) : SubSeq(s, i + 1, i + Len(k)) = k

WhiteSpace == {" ", "\t", "\n"}

\* String.prototype.trim
RECURSIVE Trim(_)
Trim(s) ==
    IF s = "" THEN ""
    ELSE IF CharAt(s, 1) \in WhiteSpace THEN Trim(SubSeq(s, 2, Len(s)))
    ELSE IF CharAt(s, Len(s)) \in WhiteSpace THEN Trim(SubSeq(s, 1, Len(s) - 1))
    ELSE s

crisisKeywords ==
    << "suicide", "kill myself", "end it all", "not worth living",
       "better off dead", "hurt myself", "self harm", "cutting",
       "overdose", "end my life", "no point in living", "worthless",
       "hopeless", "give up", "can't go on", "want to die" >>

\* detectCrisis without toLowerCase
DetectCrisisCaseSensitive(message) ==
    \E i \in 1..Len(crisisKeywords) : Includes(message, crisisKeywords[i])

detectCrisis(message) ==
    \E i \in 1..Len(crisisKeywords) :
        Includes(ToLowerCase(message), crisisKeywords[i])

Patterns(k1, l1, k2, l2, k3, l3) == (k1 :> l1) @@ (k2 :> l2) @@ (k3 :> l3)

\* the scenarios table: responses.initial and responses.patterns
scenarios ==
    ("friend-checkin" :>
        [initial |-> "Hey... I'm okay I guess. Just been really busy with work lately.",
         patterns |-> Patterns(
            "empathy", <<"Thanks for asking... it means a lot that you noticed.",
                         "I appreciate you checking in. I have been struggling a bit.">>,
            "questions", <<"I've been feeling pretty overwhelmed lately, to be honest.",
                           "It's hard to explain... just feeling really down.">>,
            "solutions", <<"I know you want to help, but I'm not ready for advice right now.",
                           "Maybe... I just need someone to listen for now.">>)]) @@
    ("therapy-suggestion" :>
        [initial |-> "I don't know... I've been thinking about therapy but it seems so expensive. And what if they just think I'm being dramatic?",
         patterns |-> Patterns(
            "cost", <<"Yeah, the cost is really what's holding me back. I can barely afford rent as it is.",
                      "I looked into it but even with insurance it's still expensive.">>,
            "stigma", <<"I grew up thinking therapy was for 'crazy' people. It's hard to shake that feeling.",
                        "What if people find out? I'm worried about being judged.">>,
            "effectiveness", <<"How do I know it will even work? What if I'm just wasting money?",
                               "I've heard mixed things about therapy. Some people say it helped, others say it didn't.">>)]) @@
    ("workplace-mental-health" :>
        [initial |-> "I'm fine, just a lot on my plate right now. I can handle it.",
         patterns |-> Patterns(
            "workload", <<"The deadlines have been really intense lately.",
                          "I'm trying to keep up but there's just so much to do.">>,
            "support", <<"I appreciate you asking... I guess I have been struggling to keep up.",
                         "It's nice to know someone noticed. I've been trying to hide it.">>,
            "boundaries", <<"I don't want to burden you with work problems.",
                            "I'm not sure if I should be talking about this at work.">>)]) @@
    ("family-conversation" :>
        [initial |-> "Mental health? We didn't have that when I was growing up. We just dealt with our problems.",
         patterns |-> Patterns(
            "generational", <<"In my day, we didn't talk about feelings all the time.",
                              "People are too soft nowadays. We just pushed through.">>,
            "concern", <<"Maybe you're right... I have been feeling different lately.",
                         "I suppose things were harder to talk about back then.">>,
            "resistance", <<"I don't need a stranger telling me what's wrong with my life.",
                            "I've made it this far without help, haven't I?">>)]) @@
    ("crisis-response" :>
        [initial |-> "I've been thinking... maybe everyone would be better off if I wasn't here anymore.",
         patterns |-> Patterns(
            "direct", <<"Yes... I have been thinking about ending my life.",
                        "It scares me to say it out loud, but yes, I've been having those thoughts.">>,
            "support", <<"Thank you for asking directly. It helps to know someone cares.",
                         "I'm scared but I don't know what else to do.">>,
            "hopeless", <<"I just don't see a way out of this pain.",
                          "Everything feels impossible right now.">>)]) @@
    ("self-advocacy" :>
        [initial |-> "Of course I want to help! What's going on? What can I do?",
         patterns |-> Patterns(
            "specific", <<"That helps me understand. What kind of support would be most helpful?",
                          "I appreciate you being specific about what you need.">>,
            "listening", <<"I'm here to listen. Take your time.",
                           "You don't have to explain everything at once.">>,
            "overwhelmed", <<"This sounds like a lot to handle. I'm glad you reached out.",
                             "I may not have all the answers, but I care about you.">>)]) @@
    ("going-to-doctor" :>
        [initial |-> "So what brings you in today? I see this is listed as a mental health consultation.",
         patterns |-> Patterns(
            "specific", <<"Those are significant symptoms. How long have you been experiencing this?",
                          "I can see this is affecting your quality of life. Let's discuss treatment options.">>,
            "vague", <<"Can you be more specific about what you're experiencing?",
                       "I need more details to understand how to help you.">>,
            "persistent", <<"I appreciate you advocating for yourself. Let me refer you to a specialist.",
                            "You're right to follow up on this. Mental health is important.">>)]) @@
    ("tough-work-conversation" :>
        [initial |-> "Thanks for scheduling this meeting. What did you want to discuss?",
         patterns |-> Patterns(
            "professional", <<"I appreciate you being upfront about this. What accommodations would be helpful?",
                              "Mental health is important. Let's work together on this.">>,
            "specific", <<"Those sound like reasonable requests. Let me talk to HR about formalizing this.",
                          "I can see how that would help. What's the timeline for implementing this?">>,
            "vague", <<"I want to support you, but I need more specifics about what you need.",
                       "Help me understand what changes would make the biggest difference.">>)]) @@
    ("asking-someone-out" :>
        [initial |-> "I always enjoy our conversations! What's on your mind?",
         patterns |-> Patterns(
            "direct", <<"Oh! I wasn't expecting that, but I'm flattered. Let me think about it.",
                        "I appreciate you being honest about how you feel.">>,
            "respectful", <<"I really value our friendship too. Thank you for being considerate about that.",
                            "It means a lot that you'd put our friendship first.">>,
            "casual", <<"That sounds fun! Are you thinking of this as a date, or just hanging out?",
                        "I'd love to spend more time together. What did you have in mind?">>)])

\* the fallback list of generateAIResponse
GeneralResponses ==
    << "I appreciate you saying that.",
       "That's helpful to hear.",
       "Can you tell me more about that?",
       "I'm glad we're talking about this." >>

\* generateAIResponse: responseCategory
ResponseCategory(userMessage) ==
    LET lowerMessage == ToLowerCase(userMessage)
    IN  IF \/ Includes(lowerMessage, "sorry")
           \/ Includes(lowerMessage, "understand")
           \/ Includes(lowerMessage, "feel")
        THEN "empathy"
        ELSE IF Includes(lowerMessage, "?") THEN "questions"
        ELSE IF \/ Includes(lowerMessage, "should")
                \/ Includes(lowerMessage, "try")
                \/ Includes(lowerMessage, "maybe")
        THEN "solutions"
        ELSE "general"

\* generateAIResponse: possibleResponses
PossibleResponses(scenarioId, userMessage) ==
    LET responses == scenarios[scenarioId].patterns
        responseCategory == ResponseCategory(userMessage)
    IN  IF responseCategory \in DOMAIN responses
        THEN responses[responseCategory]
        ELSE GeneralResponses

\* generateAIResponse: the strings Math.random() can select
generateAIResponse(conversation, userMessage) ==
    LET possibleResponses == PossibleResponses(conversation.scenarioId, userMessage)
    IN  { possibleResponses[i] : i \in 1..Len(possibleResponses) }

Range(seq) == { seq[i] : i \in 1..Len(seq) }

NoResponse == [status |-> 0]

CrisisContent ==
    "I notice you mentioned something concerning. Your safety is the most important thing right now. Please consider reaching out to crisis resources."

CrisisResources ==
    [national |-> "988", crisis |-> "741741", trevor |-> "1-866-488-7386"]

NewConversation(scenarioId) ==
    [scenarioId |-> scenarioId, messages |-> <<>>, state |-> "active"]

\* accepted message requests so far: each leaves one 'user' message
RECURSIVE UserMessages(_)
UserMessages(convs) ==
    IF convs = <<>> THEN 0
    ELSE Cardinality({i \in 1..Len(Head(convs).messages) :
                         Head(convs).messages[i].role = "user"})
         + UserMessages(Tail(convs))


\* the error-handling middleware: a thrown error is answered with 500
ServerError == [status |-> 500, error |-> "Something went wrong!"]

NoRequest == [route |-> "none"]

\* POST /api/conversations/start
StartConversation(ids) ==
    /\ UNCHANGED nonServerVars
    /\ \E scenarioId \in ids :
        /\ request' = [route |-> "start", scenarioId |-> scenarioId]
        /\ IF scenarioId \notin DOMAIN scenarios \cup ObjectPrototypeKeys
           THEN /\ response' = [status |-> 400, error |-> "Invalid scenario ID"]
                /\ UNCHANGED conversations
           ELSE /\ Len(conversations) < MaxConversations
                /\ conversations' = Append(conversations, NewConversation(scenarioId))
                /\ response' =
                      IF scenarioId \in DOMAIN scenarios
                      THEN [status |-> 200,
                            conversationId |-> Len(conversations) + 1,
                            initialResponse |-> scenarios[scenarioId].initial]
                      ELSE ServerError

\* the test that looks for a missing message only
IsMissingMessage(body) == ~body.has

\* !message || message.trim().length === 0
IsEmptyMessage(body) ==
    ~body.has \/ body.message = "" \/ Len(Trim(body.message)) = 0

\* POST /api/conversations/:id/messages; a body is [has, message], has =
\* FALSE when the request carries no message
PostMessage(ids, bodies) ==
    /\ UNCHANGED nonServerVars
    /\ \E id \in ids, body \in bodies :
      /\ request' = [route |-> "messages", id |-> id, body |-> body]
      /\
        IF id \notin 1..Len(conversations)
        THEN /\ response' = [status |-> 404, error |-> "Conversation not found"]
             /\ UNCHANGED conversations
        ELSE IF IsEmptyMessage(body)
        THEN /\ response' = [status |-> 400, error |-> "Message cannot be empty"]
             /\ UNCHANGED conversations
        ELSE
            LET conversation == conversations[id]
                userMessage == [role |-> "user", content |-> Trim(body.message)]
                withUser == Append(conversation.messages, userMessage)
            IN  /\ UserMessages(conversations) < MaxRequests
                /\ IF detectCrisis(body.message)
                   THEN LET crisisResponse ==
                                [role |-> "system", content |-> CrisisContent,
                                 isCrisis |-> TRUE]
                        IN  /\ conversations' =
                                 [conversations EXCEPT ![id].messages =
                                     Append(withUser, crisisResponse)]
                            /\ response' = [status |-> 200,
                                            response |-> crisisResponse,
                                            isCrisis |-> TRUE,
                                            crisisResources |-> CrisisResources]
                   ELSE IF conversation.scenarioId \notin DOMAIN scenarios
                   THEN /\ conversations' =
                             [conversations EXCEPT ![id].messages = withUser]
                        /\ response' = ServerError
                   ELSE \E aiResponse \in generateAIResponse(conversation, body.message) :
                        LET aiMessage == [role |-> "ai", content |-> aiResponse]
                        IN  /\ conversations' =
                                 [conversations EXCEPT ![id].messages =
                                     Append(withUser, aiMessage)]
                            /\ response' = [status |-> 200,
                                            response |-> aiMessage,
                                            isCrisis |-> FALSE]

Body(message) == [has |-> TRUE, message |-> message]

NoBody == [has |-> FALSE, message |-> ""]

\* requests of the server specification
StartRequests ==
    {"friend-checkin", "no-such-scenario", "constructor"}

ServerMessages ==
    {"  ", " GIVE UP\n", "why?"}

Start == StartConversation(StartRequests)

Post == PostMessage(0..MaxConversations,
                    {NoBody} \cup {Body(m) : m \in ServerMessages})

\* messages of the responder specification: every crisis keyword alone, in
\* upper case and inside a sentence, and messages of every bucket
KeywordMessages ==
    UNION { { crisisKeywords[i], ToUpperCase(crisisKeywords[i]),
              "Some days I " \o crisisKeywords[i] \o ", you know?" }
            : i \in 1..Len(crisisKeywords) }

PlainMessages ==
    {"I am sorry", "I UNDERSTAND", "how do you feel?", "why?", "Should we talk?",
     "you should rest", "Maybe later", "just try", "ok", "hopeles", "give  up",
     "  ", ""}

PostOnce ==
    /\ conversations[1].messages = <<>>
    /\ PostMessage({1}, {Body(m) : m \in KeywordMessages \cup PlainMessages})

IdleUI == InitUI

IdleServer ==
    conversations = <<>> /\ response = NoResponse /\ request = NoRequest

InitServer ==
    conversations = <<>> /\ response = NoResponse /\ request = NoRequest

InitResponder ==
    /\ \E scenarioId \in DOMAIN scenarios :
          conversations = <<NewConversation(scenarioId)>>
    /\ response = NoResponse
    /\ request = NoRequest

(***************************************************************************)
(* AIService.parseAnalysisResponse: the regular expressions, matched the   *)
(* way the engine matches them (leftmost match, greedy \s*, lazy .*?).     *)
(***************************************************************************)
\* fields of a generated resp that may differ from the base layout
MaxOdd == 2
\* suggestion lines of a generated resp
MaxSuggestions == 3

Digits == "0123456789"

IsDigit(c) == \E i \in 1..Len(Digits) : CharAt(Digits, i) = c

DigitValue(c) == (CHOOSE i \in 1..Len(Digits) : CharAt(Digits, i) = c) - 1

\* parseInt of a string of digits
RECURSIVE ParseInt(_)
ParseInt(d) ==
    IF d = "" THEN 0
    ELSE ParseInt(SubSeq(d, 1, Len(d) - 1)) * 10 + DigitValue(CharAt(d, Len(d)))

\* s holds pat at position i
StartsAt(s, pat, i) ==
    /\ i + Len(pat) - 1 <= Len(s)
    /\ SubSeq(s, i, i + Len(pat) - 1) = pat

\* \s* from position i, taken greedily: the position after it
RECURSIVE SkipSpaces(_, _)
SkipSpaces(s, i) ==
    IF i <= Len(s) /\ CharAt(s, i) \in WhiteSpace THEN SkipSpaces(s, i + 1) ELSE i

\* \d+ from position i: the position after it
RECURSIVE SkipDigits(_, _)
SkipDigits(s, i) ==
    IF i <= Len(s) /\ IsDigit(CharAt(s, i)) THEN SkipDigits(s, i + 1) ELSE i

\* .* from position i: the position of the line's end
RECURSIVE LineEnd(_, _)
LineEnd(s, i) ==
    IF i <= Len(s) /\ CharAt(s, i) # "\n" THEN LineEnd(s, i + 1) ELSE i

Min(S) == CHOOSE x \in S : \A y \in S : x <= y

Max(S) == CHOOSE x \in S : \A y \in S : x >= y

NoMatch == [matched |-> FALSE, capture |-> ""]

Match(capture) == [matched |-> TRUE, capture |-> capture]

\* response.match(/LABEL:\s*(\d+)/)
NumberMatch(resp, label) ==
    LET pat == label \o ":"
        hits == { i \in 1..Len(resp) :
                    /\ StartsAt(resp, pat, i)
                    /\ LET j == SkipSpaces(resp, i + Len(pat))
                       IN  j <= Len(resp) /\ IsDigit(CharAt(resp, j)) }
    IN  IF hits = {} THEN NoMatch
        ELSE LET j == SkipSpaces(resp, Min(hits) + Len(pat))
             IN  Match(SubSeq(resp, j, SkipDigits(resp, j) - 1))

\* (?=\n\n|\nIMPROVEMENT_SUGGESTIONS|$) at position e, $ being the end of input
ObservationEnds(resp, e) ==
    \/ StartsAt(resp, "\n\n", e)
    \/ StartsAt(resp, "\nIMPROVEMENT_SUGGESTIONS", e)
    \/ e = Len(resp) + 1

\* the captures (.*?) can take when it starts at c: up to the line's end
ObservationCaptureEnds(resp, c) ==
    { e \in c..LineEnd(resp, c) : ObservationEnds(resp, e) }

\* response.match(/NATHAN_OBSERVATION:\s*(.*?)(?=\n\n|\nIMPROVEMENT_SUGGESTIONS|$)/)
ObservationMatch(resp) ==
    LET pat == "NATHAN_OBSERVATION:"
        starts(i) == { c \in (i + Len(pat))..SkipSpaces(resp, i + Len(pat)) :
                         ObservationCaptureEnds(resp, c) # {} }
        hits == { i \in 1..Len(resp) :
                    StartsAt(resp, pat, i) /\ starts(i) # {} }
    IN  IF hits = {} THEN NoMatch
        ELSE LET c == Max(starts(Min(hits)))
                 e == Min(ObservationCaptureEnds(resp, c))
             IN  Match(SubSeq(resp, c, e - 1))

\* (?:\n?-.*)+ from position p: the position after the last repetition, or
\* p itself when no repetition matches
RECURSIVE DashLinesEnd(_, _)
DashLinesEnd(s, p) ==
    LET q == IF StartsAt(s, "\n-", p) THEN p + 1 ELSE p
    IN  IF q <= Len(s) /\ CharAt(s, q) = "-"
        THEN DashLinesEnd(s, LineEnd(s, q))
        ELSE p

\* response.match(/IMPROVEMENT_SUGGESTIONS:\s*((?:\n?-.*)+)/)
SuggestionsMatch(resp) ==
    LET pat == "IMPROVEMENT_SUGGESTIONS:"
        starts(i) == { c \in (i + Len(pat))..SkipSpaces(resp, i + Len(pat)) :
                         DashLinesEnd(resp, c) > c }
        hits == { i \in 1..Len(resp) :
                    StartsAt(resp, pat, i) /\ starts(i) # {} }
    IN  IF hits = {} THEN NoMatch
        ELSE LET c == Max(starts(Min(hits)))
             IN  Match(SubSeq(resp, c, DashLinesEnd(resp, c) - 1))

\* String.prototype.split('\n')
RECURSIVE SplitLines(_)
SplitLines(s) ==
    LET e == LineEnd(s, 1)
    IN  IF e > Len(s) THEN <<s>>
        ELSE <<SubSeq(s, 1, e - 1)>> \o SplitLines(SubSeq(s, e + 1, Len(s)))

\* line.replace(/^-\s*/, '').trim()
StripDash(line) ==
    IF StartsAt(line, "-", 1)
    THEN Trim(SubSeq(line, SkipSpaces(line, 2), Len(line)))
    ELSE Trim(line)

\* .filter(line => line.trim().startsWith('-')).map(...)
RECURSIVE DashLines(_)
DashLines(lines) ==
    IF lines = <<>> THEN <<>>
    ELSE IF StartsAt(Trim(Head(lines)), "-", 1)
         THEN <<StripDash(Head(lines))>> \o DashLines(Tail(lines))
         ELSE DashLines(Tail(lines))

\* Array.prototype.slice(0, n)
Slice(seq, n) == SubSeq(seq, 1, IF Len(seq) < n THEN Len(seq) ELSE n)

defaultValues ==
    [awkwardnessScore |-> 73,
     complexityRating |-> 67,
     optimalityScore |-> 81,
     nathanObservation |->
        "This script shows promise but needs more statistical backing and at least 47 additional rehearsals.",
     improvementSuggestions |->
        << "Add more specific timing for awkward pauses",
           "Include backup dialogue for when the first option fails",
           "Consider building a scale model of the location" >>,
     breakdown |-> [dialogueQuality |-> 75,
                    preparationLevel |-> 68,
                    awkwardnessAuthenticity |-> 82,
                    statisticalCredibility |-> 45]]

\* match ? parseInt(match[1]) : default
NumberOr(resp, label, default) ==
    LET match == NumberMatch(resp, label)
    IN  IF match.matched THEN ParseInt(match.capture) ELSE default

parseAnalysisResponse(resp) ==
    LET observationMatch == ObservationMatch(resp)
        suggestionsMatch == SuggestionsMatch(resp)
        suggestions ==
            IF suggestionsMatch.matched
            THEN DashLines(SplitLines(suggestionsMatch.capture))
            ELSE defaultValues.improvementSuggestions
    IN  [awkwardnessScore |->
            NumberOr(resp, "AWKWARDNESS_SCORE", defaultValues.awkwardnessScore),
         complexityRating |->
            NumberOr(resp, "COMPLEXITY_RATING", defaultValues.complexityRating),
         optimalityScore |->
            NumberOr(resp, "OPTIMALITY_SCORE", defaultValues.optimalityScore),
         nathanObservation |->
            IF observationMatch.matched THEN Trim(observationMatch.capture)
            ELSE defaultValues.nathanObservation,
         improvementSuggestions |-> Slice(suggestions, 5),
         breakdown |->
            [dialogueQuality |->
                NumberOr(resp, "DIALOGUE_QUALITY",
                         defaultValues.breakdown.dialogueQuality),
             preparationLevel |->
                NumberOr(resp, "PREPARATION_LEVEL",
                         defaultValues.breakdown.preparationLevel),
             awkwardnessAuthenticity |->
                NumberOr(resp, "AWKWARDNESS_AUTHENTICITY",
                         defaultValues.breakdown.awkwardnessAuthenticity),
             statisticalCredibility |->
                NumberOr(resp, "STATISTICAL_CREDIBILITY",
                         defaultValues.breakdown.statisticalCredibility)]]

\* the labels of the format analyzeScript asks for, in its order, with the
\* paragraph each belongs to
NumericLabels ==
    << "AWKWARDNESS_SCORE", "COMPLEXITY_RATING", "OPTIMALITY_SCORE",
       "DIALOGUE_QUALITY", "PREPARATION_LEVEL", "AWKWARDNESS_AUTHENTICITY",
       "STATISTICAL_CREDIBILITY" >>

Labels == NumericLabels \o <<"NATHAN_OBSERVATION", "IMPROVEMENT_SUGGESTIONS">>

Paragraph(label) ==
    IF label \in {"AWKWARDNESS_SCORE", "COMPLEXITY_RATING", "OPTIMALITY_SCORE"}
    THEN 1
    ELSE IF label = "NATHAN_OBSERVATION" THEN 3
    ELSE IF label = "IMPROVEMENT_SUGGESTIONS" THEN 4
    ELSE 2

\* the values a generated response gives its fields: text and number
GoodText ==
    ("AWKWARDNESS_SCORE" :> "90") @@ ("COMPLEXITY_RATING" :> "55") @@
    ("OPTIMALITY_SCORE" :> "8") @@ ("DIALOGUE_QUALITY" :> "61") @@
    ("PREPARATION_LEVEL" :> "100") @@ ("AWKWARDNESS_AUTHENTICITY" :> "34") @@
    ("STATISTICAL_CREDIBILITY" :> "12")

GoodNumber ==
    ("AWKWARDNESS_SCORE" :> 90) @@ ("COMPLEXITY_RATING" :> 55) @@
    ("OPTIMALITY_SCORE" :> 8) @@ ("DIALOGUE_QUALITY" :> 61) @@
    ("PREPARATION_LEVEL" :> 100) @@ ("AWKWARDNESS_AUTHENTICITY" :> 34) @@
    ("STATISTICAL_CREDIBILITY" :> 12)

GoodObservation == "I rehearsed this 40 times. It holds up."

SuggestionPool ==
    << "Add a pause", "Build a replica of the room", "Rehearse it twice",
       "Draw a flowchart" >>

RECURSIVE DashList(_)
DashList(n) ==
    IF n = 0 THEN "" ELSE DashList(n - 1) \o "\n- " \o SuggestionPool[n]

\* the line (or lines) of one field; a malformed number is a word, a
\* malformed list is numbered rather than dashed
FieldText(label, variant, count) ==
    IF label = "NATHAN_OBSERVATION" THEN label \o ": " \o GoodObservation
    ELSE IF label = "IMPROVEMENT_SUGGESTIONS"
    THEN IF variant = "good" THEN label \o ":" \o DashList(count)
         ELSE label \o ":\n1. Add a pause\n2. Rehearse it twice"
    ELSE IF variant = "good"
    THEN label \o ": " \o GoodText[label] \o " (as requested)"
    ELSE label \o ": high"

\* the fields of a shape that are in the response, in the format's order
Present(shape) ==
    SelectSeq(Labels, LAMBDA l : shape.fields[l] # "absent")

RECURSIVE JoinFields(_, _)
JoinFields(shape, labels) ==
    IF labels = <<>> THEN ""
    ELSE LET l == Head(labels)
             text == FieldText(l, shape.fields[l], shape.count)
         IN  IF Len(labels) = 1 THEN text
             ELSE text
                  \o (IF Paragraph(l) = Paragraph(labels[2]) THEN "\n" ELSE shape.sep)
                  \o JoinFields(shape, Tail(labels))

\* the response text of a shape
Render(shape) ==
    IF Present(shape) = <<>> THEN "I can't analyze this script." \o shape.tail
    ELSE JoinFields(shape, Present(shape)) \o shape.tail

Variants(label) ==
    IF label = "NATHAN_OBSERVATION" THEN {"absent", "good"}
    ELSE {"absent", "good", "bad"}

LabelSet == Range(Labels)

\* the layouts: every field well formed, or no field at all, with at most
\* MaxOdd fields departing from that
Shapes ==
    { [fields |-> f, sep |-> sep, tail |-> tail, count |-> n] :
        f \in { g \in [LabelSet -> {"absent", "good", "bad"}] :
                  /\ \A l \in LabelSet : g[l] \in Variants(l)
                  /\ \E base \in {"absent", "good"} :
                        Cardinality({l \in LabelSet : g[l] # base}) <= MaxOdd },
        sep \in {"\n", "\n\n"}, tail \in {"", "\n"}, n \in 1..MaxSuggestions }

NoShape ==
    [fields |-> [l \in LabelSet |-> "absent"], sep |-> "\n", tail |-> "", count |-> 1]

NoResult == [parsed |-> FALSE]

IdleParser ==
    /\ analysisShape = NoShape
    /\ analysisResponse = ""
    /\ analysisResult = NoResult

InitParser ==
    /\ analysisShape \in Shapes
    /\ analysisResponse = Render(analysisShape)
    /\ analysisResult = NoResult

\* analyzeScript, from the completion on: the response is parsed
ParseAnalysis ==
    /\ UNCHANGED nonParserVars
    /\ ~analysisResult.parsed
    /\ analysisResult' =
          [parsed |-> TRUE, analysis |-> parseAnalysisResponse(analysisResponse)]
    /\ UNCHANGED <<analysisShape, analysisResponse>>

(***************************************************************************)
(* scripts.ts: calculateNathanLevel                                        *)
(***************************************************************************)
\* calculateNathanLevel calls of one behaviour
MaxCalls == 3

\* the pattern matches at position i; a dot of the pattern is any character
\* but a line break
PatternAt(s, pat, i) ==
    /\ i + Len(pat) - 1 <= Len(s)
    /\ \/ SubSeq(s, i, i + Len(pat) - 1) = pat
       \/ \A k \in 1..Len(pat) :
            \/ CharAt(pat, k) = CharAt(s, i + k - 1)
            \/ CharAt(pat, k) = "." /\ CharAt(s, i + k - 1) # "\n"

\* (s.match(new RegExp(pat, 'g')) || []).length from position i on: the
\* matches are taken left to right, each search resuming after the last match
RECURSIVE CountMatches(_, _, _)
CountMatches(s, pat, i) ==
    LET hits == { j \in i..(Len(s) - Len(pat) + 1) : PatternAt(s, pat, j) }
    IN  IF hits = {} THEN 0
        ELSE 1 + CountMatches(s, pat, Min(hits) + Len(pat))

\* script.split(/\s+/).length: one more than the runs of white space
SplitCount(s) ==
    1 + Cardinality({ i \in 1..Len(s) :
                        /\ CharAt(s, i) \in WhiteSpace
                        /\ i = 1 \/ CharAt(s, i - 1) \notin WhiteSpace })

awkwardPhrases == <<"um", "uh", "so...", "actually", "interesting">>

preparationWords == <<"plan", "strategy", "calculated", "rehearse", "practice">>

statisticsWords == <<"percent", "%", "study", "research", "data">>

\* the forEach loops: the sum of count * weight over the words
RECURSIVE Bonus(_, _, _)
Bonus(script, words, weight) ==
    IF words = <<>> THEN 0
    ELSE CountMatches(ToLowerCase(script), Head(words), 1) * weight
         + Bonus(script, Tail(words), weight)

\* the level before the final Math.min
RawLevel(script, enhancements) ==
    LET wordCount == SplitCount(script)
        wordBonus == IF wordCount \div 50 < 20 THEN wordCount \div 50 ELSE 20
    IN  20 + wordBonus
        + Bonus(script, awkwardPhrases, 2)
        + Bonus(script, preparationWords, 3)
        + Bonus(script, statisticsWords, 4)
        + Len(enhancements) * 5
        + (IF Includes(script, "flowchart") \/ Includes(script, "diagram")
           THEN 10 ELSE 0)
        + (IF Includes(script, "replica") \/ Includes(script, "build")
           THEN 12 ELSE 0)
        + (IF Includes(script, "147") \/ Includes(script, "73") THEN 8 ELSE 0)

\* calculateNathanLevel without the final Math.min(100, level)
calculateNathanLevelUncapped(script, enhancements) ==
    RawLevel(script, enhancements)

calculateNathanLevel(script, enhancements) ==
    LET level == RawLevel(script, enhancements)
    IN  IF level > 100 THEN 100 ELSE level

RECURSIVE Repeat(_, _)
Repeat(s, n) == IF n = 0 THEN "" ELSE s \o Repeat(s, n - 1)

\* the scripts and enhancement lists of the calls
Scripts ==
    { "I want to talk.",
      "Um, so... I made a plan: a flowchart, a replica, 73 percent of the data.",
      "Actually I will REHEARSE and practice; the study and research say 147%.",
      Repeat("uh plan data ", 17) }

EnhancementLists ==
    { <<>>, <<"statistics", "replicas", "diagrams">> }

IdleScore == nathanCalls = <<>>

InitScore == nathanCalls = <<>>

\* a call of calculateNathanLevel, as POST /api/scripts and PUT
\* /api/scripts/:id make it
CalculateLevel ==
    /\ UNCHANGED nonScoreVars
    /\ Len(nathanCalls) < MaxCalls
    /\ \E script \in Scripts, enhancements \in EnhancementLists :
          nathanCalls' = Append(nathanCalls,
                                [script |-> script,
                                 enhancements |-> enhancements,
                                 level |-> calculateNathanLevel(script, enhancements)])

(***************************************************************************)
(* AIService.enhanceScript (src/unnamed/part_000): the prompt generators,  *)
(* the completion call and the result.                                     *)
(***************************************************************************)

\* enhanceScriptSchema: the six kinds and the intensity range
EnhancementTypes ==
    {"awkwardness", "overthinking", "preparation",
     "diagrams", "statistics", "replicas"}

MinIntensity == 1

MaxIntensity == 10

\* a number in a template literal
RECURSIVE IntToString(_)
IntToString(n) ==
    IF n < 10
    THEN SubSeq(Digits, n + 1, n + 1)
    ELSE IntToString(n \div 10) \o SubSeq(Digits, (n % 10) + 1, (n % 10) + 1)

\* part_000:223-240
getAwkwardnessPrompt(req) ==
       "\n"
    \o "Take this mental health script and enhance it with Nathan Fielder-level awkwardness (intensity "
    \o IntToString(req.intensity)
    \o "/10).\n"
    \o "\n"
    \o "ORIGINAL SCRIPT:\n"
    \o req.originalScript
    \o "\n"
    \o "\n"
    \o "Add elements like:\n"
    \o "- Unnaturally long pauses with specific timing\n"
    \o "- Over-explaining simple concepts\n"
    \o "- Inappropriate statistical references\n"
    \o "- Physical comedy through over-preparation\n"
    \o "- Breaking the fourth wall with documentary-style observations\n"
    \o "\n"
    \o "Make it "
    \o IntToString(req.intensity * 10)
    \o "% more awkward while keeping the mental health message intact. Add [AWKWARD PAUSE - X.X seconds] notations and internal monologue sections.\n"
    \o "\n"
    \o "Enhanced script:\n"

\* part_000:243-260
getOverthinkingPrompt(req) ==
       "\n"
    \o "Enhance this mental health script with Nathan Fielder's signature overthinking (intensity "
    \o IntToString(req.intensity)
    \o "/10).\n"
    \o "\n"
    \o "ORIGINAL SCRIPT:\n"
    \o req.originalScript
    \o "\n"
    \o "\n"
    \o "Add elements like:\n"
    \o "- Internal monologue analyzing every word choice\n"
    \o "- Preparing for 47 different conversation outcomes\n"
    \o "- Second-guessing basic social interactions\n"
    \o "- Meta-commentary on the conversation process\n"
    \o "- Flowcharts and decision trees mentioned in dialogue\n"
    \o "\n"
    \o "Show the character's mind working in overdrive, planning and re-planning every interaction.\n"
    \o "\n"
    \o "Enhanced script:\n"

\* part_000:263-280
getPreparationPrompt(req) ==
       "\n"
    \o "Enhance this mental health script with Nathan's over-preparation methodology (intensity "
    \o IntToString(req.intensity)
    \o "/10).\n"
    \o "\n"
    \o "ORIGINAL SCRIPT:\n"
    \o req.originalScript
    \o "\n"
    \o "\n"
    \o "Add elements like:\n"
    \o "- Multiple backup plans for every scenario\n"
    \o "- Rehearsed responses to common questions\n"
    \o "- Physical props and preparation materials\n"
    \o "- References to extensive research and practice\n"
    \o "- Time spent preparing vs. actual conversation time\n"
    \o "\n"
    \o "Show the character has prepared for this conversation like a military operation.\n"
    \o "\n"
    \o "Enhanced script:\n"

\* part_000:283-300
getDiagramsPrompt(req) ==
       "\n"
    \o "Enhance this mental health script with Nathan's love of visual aids and flowcharts (intensity "
    \o IntToString(req.intensity)
    \o "/10).\n"
    \o "\n"
    \o "ORIGINAL SCRIPT:\n"
    \o req.originalScript
    \o "\n"
    \o "\n"
    \o "Add elements like:\n"
    \o "- Flowcharts for conversation paths\n"
    \o "- Diagrams explaining emotional states\n"
    \o "- Charts tracking success rates\n"
    \o "- Visual aids for complex concepts\n"
    \o "- References to laminated instruction cards\n"
    \o "\n"
    \o "The character should have diagrams for everything, treating human interaction like a science.\n"
    \o "\n"
    \o "Enhanced script:\n"

\* part_000:303-320
getStatisticsPrompt(req) ==
       "\n"
    \o "Enhance this mental health script with Nathan's use of fake but believable statistics (intensity "
    \o IntToString(req.intensity)
    \o "/10).\n"
    \o "\n"
    \o "ORIGINAL SCRIPT:\n"
    \o req.originalScript
    \o "\n"
    \o "\n"
    \o "Add elements like:\n"
    \o "- Specific percentages (73.4%, 147 cases studied, etc.)\n"
    \o "- References to \"research\" and \"studies\"\n"
    \o "- Statistical analysis of conversation success rates\n"
    \o "- Data-driven decision making\n"
    \o "- Numerical backing for every claim\n"
    \o "\n"
    \o "Make every statement sound scientifically backed with convincing fake statistics.\n"
    \o "\n"
    \o "Enhanced script:\n"

\* part_000:323-340
getReplicasPrompt(req) ==
       "\n"
    \o "Enhance this mental health script with Nathan's tendency to build replicas and practice environments (intensity "
    \o IntToString(req.intensity)
    \o "/10).\n"
    \o "\n"
    \o "ORIGINAL SCRIPT:\n"
    \o req.originalScript
    \o "\n"
    \o "\n"
    \o "Add elements like:\n"
    \o "- Building exact replicas of conversation locations\n"
    \o "- Creating practice environments\n"
    \o "- Scale models for planning purposes\n"
    \o "- Hiring actors to practice scenarios\n"
    \o "- References to construction and preparation time\n"
    \o "\n"
    \o "The character should treat this like a major production requiring physical sets and rehearsal spaces.\n"
    \o "\n"
    \o "Enhanced script:\n"
\* the object literal built on every call, indexed by req.enhancementType
enhancementPrompts(req) ==
    [t \in EnhancementTypes |->
        CASE t = "awkwardness"  -> getAwkwardnessPrompt(req)
          [] t = "overthinking" -> getOverthinkingPrompt(req)
          [] t = "preparation"  -> getPreparationPrompt(req)
          [] t = "diagrams"     -> getDiagramsPrompt(req)
          [] t = "statistics"   -> getStatisticsPrompt(req)
          [] t = "replicas"     -> getReplicasPrompt(req)]

\* Math.round in place of Math.floor
NathanLevelIncreaseRounded(intensity) == (intensity * 3 + 1) \div 2

\* Math.floor(req.intensity * 1.5)
NathanLevelIncrease(intensity) == (intensity * 3) \div 2

\* message.content is a string or null
NullContent == [isNull |-> TRUE, text |-> ""]

TextContent(t) == [isNull |-> FALSE, text |-> t]

\* completion.choices[0].message.content || ''
ContentOrEmpty(content) ==
    IF content.isNull \/ content.text = "" THEN "" ELSE content.text

EnhancerModel == "gpt-4-turbo-preview"

\* the call submitted to openai.chat.completions.create
Submission(req) ==
    [model |-> EnhancerModel,
     prompt |-> enhancementPrompts(req)[req.enhancementType]]

\* enhanceScript: the completion call rejects (the rejection propagates) or
\* resolves with a completion; processingTime is a clock difference and is
\* left out of the result
enhanceScript(req, compl) ==
    IF compl.rejected
    THEN [threw |-> TRUE]
    ELSE [threw |-> FALSE,
          content |-> ContentOrEmpty(compl.choices[1].message.content),
          model |-> EnhancerModel,
          nathanLevelIncrease |-> NathanLevelIncrease(req.intensity)]

Rejected == [rejected |-> TRUE, choices |-> <<>>]

Completion(content) ==
    [rejected |-> FALSE, choices |-> <<[message |-> [content |-> content]]>>]

\* what the completion service may answer
Completions ==
    { Rejected,
      Completion(NullContent),
      Completion(TextContent("")),
      Completion(TextContent("[AWKWARD PAUSE - 3.7 seconds] I want to talk.")) }

EnhancerScript == "I want to talk."

EnhanceRequests ==
    [originalScript : {EnhancerScript},
     enhancementType : EnhancementTypes,
     intensity : MinIntensity..MaxIntensity]

NoEnhancement == [made |-> FALSE]

IdleEnhancer == enhancement = NoEnhancement

InitEnhancer == enhancement = NoEnhancement

\* one call of enhanceScript with a request the schema admits
EnhanceScript ==
    /\ UNCHANGED nonEnhancerVars
    /\ enhancement = NoEnhancement
    /\ \E req \in EnhanceRequests, compl \in Completions :
          enhancement' = [made |-> TRUE,
                          request |-> req,
                          completion |-> compl,
                          submitted |-> Submission(req),
                          result |-> enhanceScript(req, compl)]

(***************************************************************************)
(* The error classes (src/unnamed/part_003) and the errorHandler           *)
(* middleware (api/middleware/error.ts).                                   *)
(***************************************************************************)
MaxHandled == 2

\* new RehearsalError(code, message, statusCode): an error that is an
\* instance of RehearsalError
RehearsalError(code, message, statusCode) ==
    [rehearsal |-> TRUE, name |-> "RehearsalError", code |-> code,
     message |-> message, statusCode |-> statusCode]

\* the subclasses (ValidationError 400, AuthenticationError 401, ... ,
\* AIServiceError 503) call super with their code and status and then set
\* this.name
Subclass(name, code, message, statusCode) ==
    [RehearsalError(code, message, statusCode) EXCEPT !.name = name]

\* an error of another class: only its name and message are read
PlainError(name, message) ==
    [rehearsal |-> FALSE, name |-> name, message |-> message]

\* res.status(status).json({success: false, error: {code, ...}, ...})
ErrorResponse(status, code) ==
    [status |-> status, success |-> FALSE, code |-> code]

\* a branch that sends its response and falls through to the next test; h is
\* the handler's progress: the responses sent and whether it has returned
RespondWithoutReturn(h, cond, resp) ==
    IF ~h.returned /\ cond
    THEN [sent |-> Append(h.sent, resp), returned |-> FALSE]
    ELSE h

\* a branch of errorHandler: if (cond) { res.status(..).json(..); return; }
Respond(h, cond, resp) ==
    IF ~h.returned /\ cond
    THEN [sent |-> Append(h.sent, resp), returned |-> TRUE]
    ELSE h

\* errorHandler: the responses it sends for err, in order
errorHandler(err) ==
    LET h1 == Respond([sent |-> <<>>, returned |-> FALSE], err.rehearsal,
                      IF err.rehearsal
                      THEN ErrorResponse(err.statusCode, err.code)
                      ELSE ErrorResponse(0, ""))
        h2 == Respond(h1, err.name = "ValidationError",
                      ErrorResponse(400, "VALIDATION_ERROR"))
        h3 == Respond(h2, err.name = "PrismaClientKnownRequestError",
                      ErrorResponse(500, "DATABASE_ERROR"))
        h4 == Respond(h3, TRUE, ErrorResponse(500, "INTERNAL_ERROR"))
    IN  h4.sent

\* the errors given to the handler: of RehearsalError, of each subclass, and
\* of other classes
ThrownErrors ==
    { RehearsalError("SCRIPT_NOT_FOUND", "Script not found", 404),
      RehearsalError("CONFIG_ERROR", "JWT secret not configured", 500),
      Subclass("ValidationError", "VALIDATION_ERROR", "title is required", 400),
      Subclass("AuthenticationError", "AUTHENTICATION_ERROR", "Authentication failed", 401),
      Subclass("AuthorizationError", "AUTHORIZATION_ERROR", "Insufficient permissions", 403),
      Subclass("NotFoundError", "NOT_FOUND", "Script not found", 404),
      Subclass("ConflictError", "CONFLICT_ERROR", "duplicate", 409),
      Subclass("RateLimitError", "RATE_LIMIT_ERROR", "Rate limit exceeded", 429),
      Subclass("DatabaseError", "DATABASE_ERROR", "write failed", 500),
      Subclass("ExternalServiceError", "EXTERNAL_SERVICE_ERROR", "OpenAI service error: timeout", 502),
      Subclass("ConfigurationError", "CONFIGURATION_ERROR", "missing key", 500),
      Subclass("AIServiceError", "AI_SERVICE_ERROR", "no completion", 503),
      PlainError("Error", "boom"),
      PlainError("TypeError", "Cannot read properties of undefined"),
      PlainError("ValidationError", "schema"),
      PlainError("PrismaClientKnownRequestError", "P2025") }

IdleErrors == handled = <<>>

InitErrors == handled = <<>>

\* Express gives an error passed to next(err) to errorHandler
HandleError ==
    /\ UNCHANGED nonErrorVars
    /\ Len(handled) < MaxHandled
    /\ \E err \in ThrownErrors :
          handled' = Append(handled, [err |-> err, sent |-> errorHandler(err)])

(***************************************************************************)
(* authenticateToken (api/middleware/auth.ts).                             *)
(***************************************************************************)
MaxAuth == 2

\* String.prototype.split(sep) for a one-character separator
RECURSIVE Split(_, _)
Split(s, sep) ==
    LET hits == { i \in 1..Len(s) : CharAt(s, i) = sep }
    IN  IF hits = {} THEN <<s>>
        ELSE <<SubSeq(s, 1, Min(hits) - 1)>>
             \o Split(SubSeq(s, Min(hits) + 1, Len(s)), sep)

\* a value that may be undefined
Undefined == [has |-> FALSE, value |-> ""]

Defined(v) == [has |-> TRUE, value |-> v]

\* the truthiness of a string or undefined
Truthy(v) == v.has /\ v.value # ""

\* authHeader && authHeader.split(' ')[1]
TokenOf(authHeader) ==
    IF ~Truthy(authHeader) THEN authHeader
    ELSE LET parts == Split(authHeader.value, " ")
         IN  IF Len(parts) >= 2 THEN Defined(parts[2]) ELSE Undefined

\* jsonwebtoken: the classes of the errors verify throws, each with its
\* superclass
Superclass ==
    [TokenExpiredError |-> "JsonWebTokenError",
     NotBeforeError |-> "JsonWebTokenError",
     JsonWebTokenError |-> "Error",
     RehearsalError |-> "Error",
     Error |-> "Object"]

\* error instanceof cls
RECURSIVE InstanceOfClass(_, _)
InstanceOfClass(class, cls) ==
    \/ class = cls
    \/ class \in DOMAIN Superclass /\ InstanceOfClass(Superclass[class], cls)

\* verify(token, secret) for the tokens presented: it returns the payload of
\* a good token and throws for the others; a string that is no signed token
\* is malformed
verify(token) ==
    CASE token = "good"    -> [ok |-> TRUE, class |-> "none"]
      [] token = "expired" -> [ok |-> FALSE, class |-> "TokenExpiredError"]
      [] token = "early"   -> [ok |-> FALSE, class |-> "NotBeforeError"]
      [] OTHER             -> [ok |-> FALSE, class |-> "JsonWebTokenError"]

\* what the try block does: it throws an error of some class or calls next
TryVerify(token, secret) ==
    IF ~Truthy(secret)
    THEN [next |-> FALSE, class |-> "RehearsalError",
          error |-> RehearsalError("CONFIG_ERROR", "JWT secret not configured", 500)]
    ELSE IF verify(token).ok
    THEN [next |-> TRUE, class |-> "none", error |-> RehearsalError("", "", 0)]
    ELSE [next |-> FALSE, class |-> verify(token).class,
          error |-> PlainError(verify(token).class, "jwt")]

\* authenticateToken: whether next was called, whether req.user was set, and
\* the errors thrown
authenticateToken(authHeader, secret) ==
    LET token == TokenOf(authHeader)
    IN  IF ~Truthy(token)
        THEN [next |-> FALSE, user |-> FALSE,
              thrown |-> <<RehearsalError("UNAUTHORIZED", "Access token required", 401)>>]
        ELSE LET t == TryVerify(token.value, secret)
             IN  IF t.next
                 THEN [next |-> TRUE, user |-> TRUE, thrown |-> <<>>]
                 ELSE IF InstanceOfClass(t.class, "JsonWebTokenError")
                 THEN [next |-> FALSE, user |-> FALSE,
                       thrown |-> <<RehearsalError("INVALID_TOKEN", "Invalid access token", 401)>>]
                 ELSE IF InstanceOfClass(t.class, "TokenExpiredError")
                 THEN [next |-> FALSE, user |-> FALSE,
                       thrown |-> <<RehearsalError("TOKEN_EXPIRED", "Access token expired", 401)>>]
                 ELSE [next |-> FALSE, user |-> FALSE, thrown |-> <<t.error>>]

\* the authorization headers and JWT_SECRET settings of the requests
AuthHeaders ==
    { Undefined, Defined(""), Defined("Bearer"), Defined("Bearer "),
      Defined("Bearer good"), Defined("Bearer expired"),
      Defined("Bearer forged"), Defined("Bearer early"),
      Defined("Bearer not-a-jwt") }

Secrets == { Undefined, Defined("s3cret") }

IdleAuth == authLog = <<>>

InitAuth == authLog = <<>>

\* a request passes through authenticateToken
Authenticate ==
    /\ UNCHANGED nonAuthVars
    /\ Len(authLog) < MaxAuth
    /\ \E authHeader \in AuthHeaders, secret \in Secrets :
          authLog' = Append(authLog,
                            [authHeader |-> authHeader,
                             secret |-> secret,
                             token |-> TokenOf(authHeader),
                             outcome |-> authenticateToken(authHeader, secret)])

(***************************************************************************)
(* The /api/scripts routes (api/routes/scripts.ts) over the script,        *)
(* scriptEnhancement and scriptAnalysis tables.                            *)
(***************************************************************************)
MaxRouteRequests == 2

MaxRacing == 2

\* updateScriptSchema: originalScript is a string of 10 to 10000 characters
MinScriptLength == 10

MaxScriptLength == 10000

\* enhanceScriptSchema: intensity defaults to 7
DefaultIntensity == 7

\* the step of the enhance route: Math.min(100, script.nathanLevel + 5)
EnhanceStep == 5

LevelCap == 100

UndefinedList == [has |-> FALSE, value |-> <<>>]

UndefinedNumber == [has |-> FALSE, value |-> 0]

\* router.<method>(path, authenticateToken, handler), in registration order;
\* paths are the segments after /api/scripts
Routes ==
    << [method |-> "POST",   path |-> <<>>,                 handler |-> "create"],
       [method |-> "GET",    path |-> <<>>,                 handler |-> "list"],
       [method |-> "GET",    path |-> <<":id">>,            handler |-> "get"],
       [method |-> "PUT",    path |-> <<":id">>,            handler |-> "update"],
       [method |-> "POST",   path |-> <<":id", "enhance">>, handler |-> "enhance"],
       [method |-> "POST",   path |-> <<":id", "analyze">>, handler |-> "analyze"],
       [method |-> "DELETE", path |-> <<":id">>,            handler |-> "delete"],
       [method |-> "GET",    path |-> <<"templates">>,      handler |-> "templates"] >>

\* a route segment that names a parameter (":id") matches any request segment
Matches(route, method, path) ==
    /\ route.method = method
    /\ Len(route.path) = Len(path)
    /\ \A i \in 1..Len(path) :
          \/ Len(route.path[i]) > 0 /\ CharAt(route.path[i], 1) = ":"
          \/ route.path[i] = path[i]

\* Express gives the request to the first registered route that matches
Dispatch(routes, method, path) ==
    LET hits == { i \in 1..Len(routes) : Matches(routes[i], method, path) }
    IN  IF hits = {} THEN "none" ELSE routes[Min(hits)].handler

\* req.params.id
IdOf(r) == r.path[1]

\* prisma.script.findFirst without the userId condition
FindFirstOfAnyOwner(table, id, userId) ==
    IF id \in DOMAIN table THEN <<table[id]>> ELSE <<>>

\* prisma.script.findFirst({where: {id, userId}}): the row or null
FindFirst(table, id, userId) ==
    IF id \in DOMAIN table /\ table[id].userId = userId
    THEN <<table[id]>>
    ELSE <<>>

\* updateScriptSchema.safeParse(req.body).success
ValidUpdate(body) ==
    /\ body.title.has => Len(body.title.value) >= 1
    /\ body.originalScript.has =>
          /\ Len(body.originalScript.value) >= MinScriptLength
          /\ Len(body.originalScript.value) <= MaxScriptLength

\* a schema that accepts every body
AnyEnhance(body) == TRUE

\* enhanceScriptSchema.safeParse(req.body).success
ValidEnhance(body) ==
    /\ body.enhancementType.has
    /\ body.enhancementType.value \in EnhancementTypes
    /\ body.intensity.has =>
          /\ body.intensity.value >= MinIntensity
          /\ body.intensity.value <= MaxIntensity

\* validationResult.data.intensity
IntensityOf(body) ==
    IF body.intensity.has THEN body.intensity.value ELSE DefaultIntensity

\* the updates object the PUT handler builds from the validated body and the
\* row it read (updatedAt, productionNotes and storyboardFrames left out)
UpdatesOf(body, existingScript) ==
    [title |-> IF Truthy(body.title) THEN body.title ELSE Undefined,
     originalScript |->
        IF Truthy(body.originalScript) THEN body.originalScript ELSE Undefined,
     enhancedScript |->
        IF Truthy(body.enhancedScript) THEN body.enhancedScript ELSE Undefined,
     enhancements |-> body.enhancements,
     nathanLevel |->
        IF body.enhancements.has
        THEN [has |-> TRUE,
              value |-> calculateNathanLevel(
                            IF Truthy(body.originalScript)
                            THEN body.originalScript.value
                            ELSE existingScript.originalScript,
                            body.enhancements.value)]
        ELSE UndefinedNumber,
     draftNumber |->
        IF Truthy(body.originalScript) \/ Truthy(body.enhancedScript)
        THEN [has |-> TRUE, value |-> existingScript.draftNumber + 1]
        ELSE UndefinedNumber]

\* the level raised by the increase enhanceScript returns
EnhanceUpdatesByIncrease(result, script) ==
    [title |-> Undefined,
     originalScript |-> Undefined,
     enhancedScript |-> Defined(result.content),
     enhancements |-> UndefinedList,
     nathanLevel |->
        [has |-> TRUE,
         value |-> IF script.nathanLevel + result.nathanLevelIncrease > LevelCap
                   THEN LevelCap
                   ELSE script.nathanLevel + result.nathanLevelIncrease],
     draftNumber |-> [has |-> TRUE, value |-> script.draftNumber + 1]]

\* the data object of the enhance route's update
EnhanceUpdatesOf(result, script) ==
    [title |-> Undefined,
     originalScript |-> Undefined,
     enhancedScript |-> Defined(result.content),
     enhancements |-> UndefinedList,
     nathanLevel |->
        [has |-> TRUE,
         value |-> IF script.nathanLevel + EnhanceStep > LevelCap
                   THEN LevelCap
                   ELSE script.nathanLevel + EnhanceStep],
     draftNumber |-> [has |-> TRUE, value |-> script.draftNumber + 1]]

\* prisma.script.update({where: {id}, data}): the columns named in data are
\* written, the others kept
ApplyUpdates(row, data) ==
    [userId |-> row.userId,
     title |-> IF data.title.has THEN data.title.value ELSE row.title,
     originalScript |->
        IF data.originalScript.has THEN data.originalScript.value
        ELSE row.originalScript,
     enhancedScript |->
        IF data.enhancedScript.has THEN data.enhancedScript.value
        ELSE row.enhancedScript,
     enhancements |->
        IF data.enhancements.has THEN data.enhancements.value
        ELSE row.enhancements,
     nathanLevel |->
        IF data.nathanLevel.has THEN data.nathanLevel.value ELSE row.nathanLevel,
     draftNumber |->
        IF data.draftNumber.has THEN data.draftNumber.value ELSE row.draftNumber]

\* the three categories of the static catalogue of GET /templates
TemplateCategories ==
    {"mental-health", "social-situations", "difficult-conversations"}

\* what a request has been answered with
NoReply == [status |-> 0]

\* res.json(successResponse(...)) of a route
Success(route, status, row, categories) ==
    [status |-> status, success |-> TRUE, code |-> "",
     answeredBy |-> route, script |-> row, categories |-> categories]

\* an error thrown in a route reaches errorHandler through asyncHandler
Failure(route, err) ==
    LET r == errorHandler(err)[1]
    IN  [status |-> r.status, success |-> r.success, code |-> r.code,
         answeredBy |-> route, script |-> <<>>, categories |-> {}]

ScriptNotFound == RehearsalError("SCRIPT_NOT_FOUND", "Script not found", 404)

InvalidBody == RehearsalError("VALIDATION_ERROR", "Invalid update data", 400)

\* what prisma throws when the row to write is gone (P2025) or the row a new
\* record refers to is gone (P2003)
PrismaError(code) == PlainError("PrismaClientKnownRequestError", code)

\* what the completion client throws when the call fails
CompletionError == PlainError("APIError", "completion failed")

\* a request body with no field
EmptyBody ==
    [title |-> Undefined, originalScript |-> Undefined,
     enhancedScript |-> Undefined, enhancements |-> UndefinedList,
     enhancementType |-> Undefined, intensity |-> UndefinedNumber]

\* the script the table holds from the start, as POST /api/scripts creates it
FirstScript == "I want to talk."

CreatedScript(userId, title, originalScript, enhancements) ==
    [userId |-> userId, title |-> title, originalScript |-> originalScript,
     enhancedScript |-> NULL, enhancements |-> enhancements,
     nathanLevel |-> calculateNathanLevel(originalScript, enhancements),
     draftNumber |-> 1]

InitialScripts == [id \in {"s1"} |-> CreatedScript("u1", "Talk", FirstScript, <<>>)]

\* the same table when the script was created from a rehearsed text with all
\* six enhancements: its level is 99
RehearsedScripts ==
    [id \in {"s1"} |->
        CreatedScript("u1", "Plan",
                      "Um, uh: a flowchart, a replica, 73% data, a plan, a study.",
                      <<"statistics", "replicas", "diagrams",
                        "awkwardness", "overthinking", "preparation">>)]

\* a request as it arrives, authenticated as user
Request(method, path, user, body) ==
    [method |-> method, path |-> path, user |-> user, body |-> body]

\* the handler's position after its synchronous start: validation, or the
\* whole of a handler that awaits nothing
Pending(r, route, pc) ==
    [method |-> r.method, path |-> r.path, user |-> r.user, body |-> r.body,
     handler |-> route, pc |-> pc, existing |-> <<>>, ai |-> <<>>,
     calls |-> 0, response |-> NoReply,
     before |-> [scripts |-> scripts,
                 scriptEnhancements |-> scriptEnhancements,
                 scriptAnalyses |-> scriptAnalyses]]

Answered(p, reply) == [p EXCEPT !.pc = "done", !.response = reply]

Begin(r) ==
    LET route == Dispatch(Routes, r.method, r.path)
    IN  CASE route = "none" ->
               Answered(Pending(r, route, "done"),
                        [status |-> 404, success |-> FALSE, code |-> "NOT_FOUND",
                         answeredBy |-> "none", script |-> <<>>,
                         categories |-> {}])
          [] route = "templates" ->
               Answered(Pending(r, route, "done"),
                        Success(route, 200, <<>>, TemplateCategories))
          [] route = "update" ->
               IF ValidUpdate(r.body)
               THEN Pending(r, route, "find")
               ELSE Answered(Pending(r, route, "done"), Failure(route, InvalidBody))
          [] route = "enhance" ->
               IF ValidEnhance(r.body)
               THEN Pending(r, route, "find")
               ELSE Answered(Pending(r, route, "done"), Failure(route, InvalidBody))
          [] OTHER -> Pending(r, route, "find")

\* requests[i] replaced by p, with the step attributed to request i
Advance(i, p) ==
    /\ requests' = [requests EXCEPT ![i] = p]
    /\ turn' = i

\* a request arrives and its handler runs up to its first await; when the
\* requests are not concurrent, the earlier ones have been answered
Receive(pool, max, concurrent) ==
    /\ UNCHANGED nonScriptsVars
    /\ Len(requests) < max
    /\ concurrent \/ \A i \in 1..Len(requests) : requests[i].pc = "done"
    /\ \E r \in pool :
          /\ requests' = Append(requests, Begin(r))
          /\ turn' = Len(requests) + 1
    /\ UNCHANGED <<scripts, scriptEnhancements, scriptAnalyses>>

\* await prisma.script.findFirst({where: {id, userId}}) and what follows it
\* up to the next await: the 404, or for GET /:id the response
Find ==
    /\ UNCHANGED nonScriptsVars
    /\ \E i \in 1..Len(requests) :
          LET p == requests[i]
              found == FindFirst(scripts, IdOf(p), p.user)
          IN  /\ p.pc = "find"
              /\ IF found = <<>>
                 THEN Advance(i, Answered(p, Failure(p.handler, ScriptNotFound)))
                 ELSE CASE p.handler = "get" ->
                             Advance(i, Answered(p, Success(p.handler, 200, found, {})))
                        [] p.handler = "update" ->
                             Advance(i, [p EXCEPT !.pc = "update", !.existing = found])
                        [] p.handler = "delete" ->
                             Advance(i, [p EXCEPT !.pc = "commit", !.existing = found])
                        [] OTHER ->
                             Advance(i, [p EXCEPT !.pc = "ai", !.existing = found])
    /\ UNCHANGED <<scripts, scriptEnhancements, scriptAnalyses>>

\* await aiService.enhanceScript(...) or await aiService.analyzeScript(...):
\* one external completion call, which resolves or rejects
AiCall ==
    /\ UNCHANGED nonScriptsVars
    /\ \E i \in 1..Len(requests), compl \in Completions :
          LET p == requests[i]
              script == p.existing[1]
              result == enhanceScript([originalScript |-> script.originalScript,
                                       enhancementType |-> p.body.enhancementType.value,
                                       intensity |-> IntensityOf(p.body)],
                                      compl)
              called == [p EXCEPT !.calls = @ + 1]
          IN  /\ p.pc = "ai"
              /\ IF compl.rejected
                 THEN Advance(i, Answered(called, Failure(p.handler, CompletionError)))
                 ELSE IF p.handler = "enhance"
                 THEN Advance(i, [called EXCEPT !.pc = "update", !.ai = <<result>>])
                 ELSE Advance(i, [called EXCEPT !.pc = "create"])
    /\ UNCHANGED <<scripts, scriptEnhancements, scriptAnalyses>>

\* await prisma.script.update({where: {id}, data}): the PUT handler then
\* answers, the enhance handler goes on to log the enhancement
Update ==
    /\ UNCHANGED nonScriptsVars
    /\ \E i \in 1..Len(requests) :
          LET p == requests[i]
              id == IdOf(p)
              data == IF p.handler = "update"
                      THEN UpdatesOf(p.body, p.existing[1])
                      ELSE EnhanceUpdatesOf(p.ai[1], p.existing[1])
              updatedScript == ApplyUpdates(scripts[id], data)
          IN  /\ p.pc = "update"
              /\ IF id \notin DOMAIN scripts
                 THEN /\ Advance(i, Answered(p, Failure(p.handler, PrismaError("P2025"))))
                      /\ UNCHANGED scripts
                 ELSE /\ scripts' = [scripts EXCEPT ![id] = updatedScript]
                      /\ IF p.handler = "update"
                         THEN Advance(i, Answered(p, Success(p.handler, 200,
                                                             <<updatedScript>>, {})))
                         ELSE Advance(i, [p EXCEPT !.pc = "create"])
    /\ UNCHANGED <<scriptEnhancements, scriptAnalyses>>

\* await prisma.scriptEnhancement.create(...) of the enhance handler, or
\* await prisma.scriptAnalysis.create(...) of the analyze handler, and the
\* response
Create ==
    /\ UNCHANGED nonScriptsVars
    /\ \E i \in 1..Len(requests) :
          LET p == requests[i]
              id == IdOf(p)
              script == p.existing[1]
          IN  /\ p.pc = "create"
              /\ IF id \notin DOMAIN scripts
                 THEN /\ Advance(i, Answered(p, Failure(p.handler, PrismaError("P2003"))))
                      /\ UNCHANGED <<scriptEnhancements, scriptAnalyses>>
                 ELSE IF p.handler = "enhance"
                 THEN /\ scriptEnhancements' =
                            Append(scriptEnhancements,
                                   [scriptId |-> id,
                                    enhancementType |-> p.body.enhancementType.value,
                                    intensity |-> IntensityOf(p.body),
                                    aiModel |-> p.ai[1].model,
                                    nathanLevelBefore |-> script.nathanLevel,
                                    nathanLevelAfter |->
                                        EnhanceUpdatesOf(p.ai[1], script).nathanLevel.value])
                      /\ UNCHANGED scriptAnalyses
                      /\ Advance(i, Answered(p, Success(p.handler, 200, <<>>, {})))
                 ELSE /\ scriptAnalyses' =
                            Append(scriptAnalyses,
                                   [scriptId |-> id, aiModel |-> "gpt-4-turbo"])
                      /\ UNCHANGED scriptEnhancements
                      /\ Advance(i, Answered(p, Success(p.handler, 200, <<>>, {})))
    /\ UNCHANGED scripts

\* the rows of a record table that do not refer to the script
OfOtherScripts(rows, id) == SelectSeq(rows, LAMBDA row : row.scriptId # id)

\* await prisma.$transaction([deleteMany, deleteMany, delete]) of the delete
\* handler, and the response
Commit ==
    /\ UNCHANGED nonScriptsVars
    /\ \E i \in 1..Len(requests) :
          LET p == requests[i]
              id == IdOf(p)
          IN  /\ p.pc = "commit"
              /\ IF id \notin DOMAIN scripts
                 THEN /\ Advance(i, Answered(p, Failure(p.handler, PrismaError("P2025"))))
                      /\ UNCHANGED <<scripts, scriptEnhancements, scriptAnalyses>>
                 ELSE /\ scripts' = [k \in DOMAIN scripts \ {id} |-> scripts[k]]
                      /\ scriptEnhancements' = OfOtherScripts(scriptEnhancements, id)
                      /\ scriptAnalyses' = OfOtherScripts(scriptAnalyses, id)
                      /\ Advance(i, Answered(p, Success(p.handler, 200, <<>>, {})))

\* the bodies of the PUT requests
TitleOnly == [EmptyBody EXCEPT !.title = Defined("Talk again")]

ScriptOnly == [EmptyBody EXCEPT !.originalScript = Defined("Um, I made a plan.")]

EnhancedOnly == [EmptyBody EXCEPT !.enhancedScript = Defined("Uh. I want to talk.")]

EnhancementsOnly ==
    [EmptyBody EXCEPT !.enhancements = [has |-> TRUE, value |-> <<"statistics">>]]

ShortScript == [EmptyBody EXCEPT !.originalScript = Defined("Hi.")]

\* the bodies of the enhance requests
EnhanceDefault == [EmptyBody EXCEPT !.enhancementType = Defined("statistics")]

EnhanceGentle ==
    [EmptyBody EXCEPT !.enhancementType = Defined("awkwardness"),
                      !.intensity = [has |-> TRUE, value |-> 1]]

EnhanceUnknownType ==
    [EmptyBody EXCEPT !.enhancementType = Defined("sarcasm"),
                      !.intensity = [has |-> TRUE, value |-> 5]]

EnhanceTooIntense ==
    [EmptyBody EXCEPT !.enhancementType = Defined("replicas"),
                      !.intensity = [has |-> TRUE, value |-> 11]]

\* the requests of the owner and of another user, one after the other
RoutesPool ==
    { Request("GET", <<id>>, u, EmptyBody) :
          id \in {"s1", "templates"}, u \in {"u1", "u2"} }
    \cup { Request("PUT", <<"s1">>, "u1", b) :
          b \in {TitleOnly, ScriptOnly, EnhancedOnly, EnhancementsOnly, ShortScript} }
    \cup { Request("PUT", <<"s1">>, "u2", b) : b \in {ScriptOnly, ShortScript} }
    \cup { Request("POST", <<"s1", "enhance">>, "u1", b) :
          b \in {EnhanceDefault, EnhanceGentle, EnhanceUnknownType, EnhanceTooIntense} }
    \cup { Request("POST", <<"s1", "enhance">>, "u2", b) :
          b \in {EnhanceDefault, EnhanceTooIntense} }
    \cup { Request("POST", <<"s1", "analyze">>, u, EmptyBody) : u \in {"u1", "u2"} }
    \cup { Request("DELETE", <<"s1">>, u, EmptyBody) : u \in {"u1", "u2"} }

\* the owner's content-changing requests and a delete, made at the same time
RacePool ==
    { Request("PUT", <<"s1">>, "u1", ScriptOnly),
      Request("PUT", <<"s1">>, "u1", EnhancedOnly),
      Request("POST", <<"s1", "enhance">>, "u1", EnhanceDefault),
      Request("POST", <<"s1", "enhance">>, "u1", EnhanceGentle),
      Request("DELETE", <<"s1">>, "u1", EmptyBody) }

RoutesReceive == Receive(RoutesPool, MaxRouteRequests, FALSE)

RaceReceive == Receive(RacePool, MaxRacing, TRUE)

IdleScripts ==
    /\ scripts = InitialScripts
    /\ scriptEnhancements = <<>>
    /\ scriptAnalyses = <<>>
    /\ requests = <<>>
    /\ turn = 0

\* the routes start on either table
InitScripts ==
    /\ scripts \in {InitialScripts, RehearsedScripts}
    /\ scriptEnhancements = <<>>
    /\ scriptAnalyses = <<>>
    /\ requests = <<>>
    /\ turn = 0

IdleBackend == IdleEnhancer /\ IdleErrors /\ IdleAuth /\ IdleScripts

(***************************************************************************)
(* Specifications                                                          *)
(***************************************************************************)
Init == InitUI /\ IdleServer /\ IdleParser /\ IdleScore /\ IdleBackend

Next ==
    \/ SelectScenario
    \/ TryAgain
    \/ ShowScenarioSelection
    \/ MakeChoice
    \/ Fire
    \/ Tick

Spec == Init /\ [][Next]_vars

\* the interface when selectScenario is also called with ids that are not
\* scenarios
AttemptsNext ==
    \/ SelectAttempt
    \/ TryAgain
    \/ ShowScenarioSelection
    \/ MakeChoice
    \/ Fire
    \/ Tick

AttemptsSpec == Init /\ [][AttemptsNext]_vars

\* the conversation server under arbitrary requests
ServerInit == InitServer /\ IdleUI /\ IdleParser /\ IdleScore /\ IdleBackend

ServerNext ==
    \/ Start
    \/ Post

ServerSpec == ServerInit /\ [][ServerNext]_vars

\* one message request on a fresh conversation of any scenario
ResponderInit == InitResponder /\ IdleUI /\ IdleParser /\ IdleScore /\ IdleBackend

ResponderNext == PostOnce

ResponderSpec == ResponderInit /\ [][ResponderNext]_vars

\* one analysis response, of any generated layout, parsed
ParserInit == InitParser /\ IdleUI /\ IdleServer /\ IdleScore /\ IdleBackend

ParserNext == ParseAnalysis

ParserSpec == ParserInit /\ [][ParserNext]_vars

\* calculateNathanLevel called again and again
ScoreInit == InitScore /\ IdleUI /\ IdleServer /\ IdleParser /\ IdleBackend

ScoreNext == CalculateLevel

ScoreSpec == ScoreInit /\ [][ScoreNext]_vars

\* one call of enhanceScript
EnhancerInit ==
    /\ InitEnhancer /\ IdleErrors /\ IdleAuth /\ IdleScripts
    /\ IdleUI /\ IdleServer /\ IdleParser /\ IdleScore

EnhancerNext == EnhanceScript

EnhancerSpec == EnhancerInit /\ [][EnhancerNext]_vars

\* errors given to errorHandler one after the other
ErrorsInit ==
    /\ InitErrors /\ IdleEnhancer /\ IdleAuth /\ IdleScripts
    /\ IdleUI /\ IdleServer /\ IdleParser /\ IdleScore

ErrorsNext == HandleError

ErrorsSpec == ErrorsInit /\ [][ErrorsNext]_vars

\* requests passing through authenticateToken
AuthInit ==
    /\ InitAuth /\ IdleEnhancer /\ IdleErrors /\ IdleScripts
    /\ IdleUI /\ IdleServer /\ IdleParser /\ IdleScore

AuthNext == Authenticate

AuthSpec == AuthInit /\ [][AuthNext]_vars

\* the scripts routes, one request at a time
RoutesInit ==
    /\ InitScripts /\ IdleEnhancer /\ IdleErrors /\ IdleAuth
    /\ IdleUI /\ IdleServer /\ IdleParser /\ IdleScore

RoutesNext ==
    \/ RoutesReceive
    \/ Find
    \/ AiCall
    \/ Update
    \/ Create
    \/ Commit

RoutesSpec == RoutesInit /\ [][RoutesNext]_vars

\* the owner's PUT and enhance requests on one script, concurrently
RaceInit == RoutesInit

RaceNext ==
    \/ RaceReceive
    \/ Find
    \/ AiCall
    \/ Update
    \/ Create
    \/ Commit

RaceSpec == RaceInit /\ [][RaceNext]_vars


(***************************************************************************)
(* Claims about the dialogue engine (checked under Spec).                  *)
(***************************************************************************)

\* C1: after any sequence of selectScenario and makeChoice operations from
\* the initial app state, each of the three player stats is within [0,10],
\* whatever deltas the chosen choices carry.
C1_StatsWithinRange ==
    \A s \in StatNames : playerStats[s] \in 0..10

\* a choice with a delta of +15 was applied and the stat stopped at 10
C1_Witness ==
    /\ last.op = "makeChoice"
    /\ conversationHistory # <<>>
    /\ <<"trust", 15>> \in conversationHistory[Len(conversationHistory)].impact
    /\ playerStats.trust = 10

\* C2: within one scenario run conversationHistory is append-only and as
\* long as the number of makeChoice calls of the run: each makeChoice appends
\* exactly one entry {scene, choice, impact} and leaves the earlier entries
\* alone, whether or not the choice's next resolves; no timer callback
\* touches the history.
C2_HistoryAppendOnly ==
    [][ /\ (last'.op = "makeChoice" =>
              /\ Len(conversationHistory') = Len(conversationHistory) + 1
              /\ SubSeq(conversationHistory', 1, Len(conversationHistory))
                    = conversationHistory
              /\ conversationHistory'[Len(conversationHistory')].scene
                    = currentScene
              /\ \E i \in 1..Len(SceneOf(choiceButtons.scn, choiceButtons.scene).choices) :
                    LET c == SceneOf(choiceButtons.scn, choiceButtons.scene).choices[i]
                        e == conversationHistory'[Len(conversationHistory')]
                    IN  e.choice = c.text /\ e.impact = c.impact)
        /\ (last'.op \in {"fire", "tick"} =>
              conversationHistory' = conversationHistory)
        /\ (currentScenario' # NULL =>
              Len(conversationHistory') = choicesMade') ]_vars

\* a second choice of a run, with an unresolved next, was appended
C2_Witness ==
    /\ last.op = "makeChoice"
    /\ currentScenario # NULL
    /\ Len(conversationHistory) = 2
    /\ conversationHistory[2].choice = "lecture"
    /\ choicesMade = 2

\* C4: a choice whose next matches no scene of the current scenario (and
\* is not the success marker) ends the conversation with the failure
\* outcome and never throws, also when the user acts before the delayed end.
C4_UnresolvedEndsAsFailure ==
    (last.op = "fire" /\ last.kind = "endChoice" /\ ~last.ok) =>
        /\ ~last.threw
        /\ completion.shown
        /\ ~completion.success

\* C5: a timer callback scheduled during an earlier run never changes the
\* engine state of a later run, never shows a scene of the earlier run in
\* it and never ends its conversation.
C5_StaleTimersHarmless ==
    [][ (last'.op = "fire" /\ last'.run < Run' /\ currentScenario' # NULL) =>
            /\ currentScene' = currentScene
            /\ playerStats' = playerStats
            /\ conversationHistory' = conversationHistory
            /\ breakthroughs' = breakthroughs
            /\ storyScene' = storyScene
            /\ completion' = completion ]_vars

\* C6: the end timer of a displayed isEnd scene finalizes the run that
\* reached the scene: endConversation runs once, does not throw, with
\* success iff the scene's outcome is 'success', and shows the summary of
\* the current stats, their sum, the history length and the breakthroughs.
C6_EndSceneFinalizes ==
    (last.op = "fire" /\ last.kind = "endScene") =>
        /\ ~last.threw
        /\ last.run = Run
        /\ endCalls = 1
        /\ completion = Summary(last.ok)

\* C7 as stated: every start or restart leaves stats {0,0,0}, an empty
\* history, no breakthroughs and currentScene 'intro'.
C7_ResetLeavesNothing ==
    [][ (last'.op \in {"selectScenario", "tryAgain"} /\ last'.kind # "alert") =>
            /\ playerStats' = [s \in StatNames |-> 0]
            /\ conversationHistory' = <<>>
            /\ breakthroughs' = <<>>
            /\ currentScene' = "intro" ]_vars

\* C7 amended: every start or restart leaves stats {0,0,0}, an empty
\* history and currentScene 'intro', and breakthroughs holds nothing of the
\* previous run: it is empty, or holds only the breakthrough of the new
\* run's start scene when that scene is flagged isBreakthrough.
C7_ResetKeepsNothingOfPreviousRun ==
    [][ (last'.op \in {"selectScenario", "tryAgain"} /\ last'.kind # "alert") =>
            /\ playerStats' = [s \in StatNames |-> 0]
            /\ conversationHistory' = <<>>
            /\ currentScene' = "intro"
            /\ LET first == FirstScene(currentScenario')
               IN  breakthroughs' =
                     IF SceneOf(currentScenario', first).isBreakthrough
                     THEN <<[scenario |-> currentScenario', scene |-> first]>>
                     ELSE <<>> ]_vars

\* a restart right after a run that had ended with a score and choices
C7_Witness ==
    /\ last.op = "tryAgain"
    /\ completion.shown
    /\ completion.total > 0
    /\ completion.conversations > 0
    /\ completion.breakthroughs > 0
    /\ playerStats = [s \in StatNames |-> 0]
    /\ conversationHistory = <<>>

(***************************************************************************)
(* Claims about the conversation server (checked under ResponderSpec).     *)
(***************************************************************************)

\* a message that holds some crisis keyword, whatever its letter case
HoldsCrisisKeyword(content) ==
    \E k \in Range(crisisKeywords) : Includes(ToLowerCase(content), k)

\* C3: an accepted message request whose message holds a crisis keyword, in
\* any letter case, answers isCrisis = true with the crisis resources 988 and
\* 741741, appends after the user's message exactly one reply, of role
\* 'system', and appends no 'ai' message; this for every keyword of the list.
C3_CrisisBypassesResponder ==
    [][ \A id \in 1..Len(conversations) :
          LET old == conversations[id].messages
              new == conversations'[id].messages
          IN  (/\ Len(new) > Len(old)
               /\ HoldsCrisisKeyword(new[Len(old) + 1].content))
              => /\ Len(new) = Len(old) + 2
                 /\ new[Len(old) + 1].role = "user"
                 /\ new[Len(old) + 2].role = "system"
                 /\ new[Len(old) + 2].isCrisis
                 /\ response'.status = 200
                 /\ response'.isCrisis
                 /\ response'.response = new[Len(old) + 2]
                 /\ response'.crisisResources.national = "988"
                 /\ response'.crisisResources.crisis = "741741" ]_vars

\* the last keyword of the list, in upper case, was answered as a crisis
C3_Witness ==
    /\ Len(conversations) = 1
    /\ Len(conversations[1].messages) = 2
    /\ conversations[1].messages[1].content = "WANT TO DIE"
    /\ conversations[1].messages[2].role = "system"
    /\ response.status = 200
    /\ response.isCrisis

\* the bucket of a message, by the stated priority
BucketOf(content) ==
    LET m == ToLowerCase(content)
    IN  IF Includes(m, "sorry") \/ Includes(m, "understand") \/ Includes(m, "feel")
        THEN "empathy"
        ELSE IF Includes(m, "?") THEN "questions"
        ELSE IF Includes(m, "should") \/ Includes(m, "try") \/ Includes(m, "maybe")
        THEN "solutions"
        ELSE "generic"

\* C8: the reply to a non-crisis message is a member of the list that the
\* conversation's scenario holds for the message's bucket (empathy before
\* questions before solutions), and of the generic list when the message
\* falls in no bucket; this for every scenario of the table.
C8_ReplyFromScenarioBucket ==
    \A id \in 1..Len(conversations) :
        LET c == conversations[id]
        IN  \A i \in 2..Len(c.messages) :
                c.messages[i].role = "ai" =>
                    LET bucket == BucketOf(c.messages[i - 1].content)
                        lists == scenarios[c.scenarioId].patterns
                    IN  IF bucket = "generic"
                        THEN c.messages[i].content \in Range(GeneralResponses)
                        ELSE /\ bucket \in DOMAIN lists
                             /\ c.messages[i].content \in Range(lists[bucket])

(***************************************************************************)
(* Claims about the parser (ParserSpec) and the score (ScoreSpec).         *)
(***************************************************************************)

\* what the fallback rule gives for a layout: the labelled value of every
\* well-formed field, the static default of every other field
ExpectedNumber(shape, label, default) ==
    IF shape.fields[label] = "good" THEN GoodNumber[label] ELSE default

ExpectedAnalysis(shape) ==
    [awkwardnessScore |-> ExpectedNumber(shape, "AWKWARDNESS_SCORE", 73),
     complexityRating |-> ExpectedNumber(shape, "COMPLEXITY_RATING", 67),
     optimalityScore |-> ExpectedNumber(shape, "OPTIMALITY_SCORE", 81),
     nathanObservation |->
        IF shape.fields["NATHAN_OBSERVATION"] = "good" THEN GoodObservation
        ELSE "This script shows promise but needs more statistical backing and at least 47 additional rehearsals.",
     improvementSuggestions |->
        IF shape.fields["IMPROVEMENT_SUGGESTIONS"] = "good"
        THEN SubSeq(SuggestionPool, 1, shape.count)
        ELSE << "Add more specific timing for awkward pauses",
                "Include backup dialogue for when the first option fails",
                "Consider building a scale model of the location" >>,
     breakdown |->
        [dialogueQuality |-> ExpectedNumber(shape, "DIALOGUE_QUALITY", 75),
         preparationLevel |-> ExpectedNumber(shape, "PREPARATION_LEVEL", 68),
         awkwardnessAuthenticity |->
            ExpectedNumber(shape, "AWKWARDNESS_AUTHENTICITY", 82),
         statisticalCredibility |->
            ExpectedNumber(shape, "STATISTICAL_CREDIBILITY", 45)]]

\* C9: parseAnalysisResponse falls back field by field: each of the seven
\* numbers, the observation and the suggestions is the labelled value when
\* the response holds the field well formed and the field's static default
\* (73, 67, 81, 75, 68, 82, 45, the default observation, the three default
\* suggestions) when it does not, whatever the other fields are.
C9_FieldByFieldFallback ==
    analysisResult.parsed =>
        analysisResult.analysis = ExpectedAnalysis(analysisShape)

OnlyWhiteSpace(m) == \A i \in 1..Len(m) : CharAt(m, i) \in {" ", "\t", "\n"}

\* C16: a message request for an id with no conversation answers 404 and
\* creates or modifies no conversation; one for an existing conversation
\* with a missing, empty or white-space-only message answers 400 and appends
\* nothing to the conversation's messages.
C16_RejectedMessageChangesNothing ==
    [][ request'.route = "messages" =>
          IF request'.id \notin 1..Len(conversations)
          THEN response'.status = 404 /\ conversations' = conversations
          ELSE (~request'.body.has \/ OnlyWhiteSpace(request'.body.message))
               => response'.status = 400 /\ conversations' = conversations ]_vars

\* a white-space-only message was refused on a conversation that already
\* holds messages
C16_Witness ==
    /\ request.route = "messages"
    /\ request.id \in 1..Len(conversations)
    /\ request.body.has
    /\ request.body.message = "  "
    /\ response.status = 400
    /\ conversations[request.id].messages # <<>>

\* C17: a start request whose scenarioId is no key of the scenario table
\* answers 400 and leaves the conversations map unchanged; one with a known
\* scenarioId adds exactly one conversation under a fresh id, 'active' and
\* with no messages, and leaves the existing conversations unchanged.
C17_StartValidatesScenario ==
    [][ request'.route = "start" =>
          IF request'.scenarioId \notin DOMAIN scenarios
          THEN response'.status = 400 /\ conversations' = conversations
          ELSE /\ response'.status = 200
               /\ Len(conversations') = Len(conversations) + 1
               /\ response'.conversationId = Len(conversations')
               /\ SubSeq(conversations', 1, Len(conversations)) = conversations
               /\ conversations'[Len(conversations')] =
                     [scenarioId |-> request'.scenarioId, messages |-> <<>>,
                      state |-> "active"] ]_vars

(***************************************************************************)
(* Claims about AIService.enhanceScript (checked under EnhancerSpec).      *)
(***************************************************************************)

\* the prompt generator of each kind
TemplateOf(kind, req) ==
    CASE kind = "awkwardness"  -> getAwkwardnessPrompt(req)
      [] kind = "overthinking" -> getOverthinkingPrompt(req)
      [] kind = "preparation"  -> getPreparationPrompt(req)
      [] kind = "diagrams"     -> getDiagramsPrompt(req)
      [] kind = "statistics"   -> getStatisticsPrompt(req)
      [] kind = "replicas"     -> getReplicasPrompt(req)

\* C13: for every enhancement type of the six kinds and every intensity in
\* 1..10, enhanceScript submits the prompt of exactly that type (and of no
\* other), and when the completion call resolves it returns the completion's
\* text, the empty string when the completion has none, together with
\* nathanLevelIncrease = floor(intensity * 1.5), that is the one integer n
\* with 2n <= 3 * intensity < 2n + 2.
C13_EnhanceScriptContract ==
    enhancement.made =>
       LET req == enhancement.request
           content == enhancement.completion.choices[1].message.content
           n == enhancement.result.nathanLevelIncrease
       IN  /\ enhancement.submitted.prompt = TemplateOf(req.enhancementType, req)
           /\ \A kind \in EnhancementTypes \ {req.enhancementType} :
                 enhancement.submitted.prompt # TemplateOf(kind, req)
           /\ ~enhancement.completion.rejected =>
                 /\ ~enhancement.result.threw
                 /\ enhancement.result.content =
                       (IF content.isNull THEN "" ELSE content.text)
                 /\ 2 * n <= 3 * req.intensity
                 /\ 3 * req.intensity < 2 * n + 2

\* replicas at intensity 7 with a completion that has no text: '' and 10
C13_Witness ==
    /\ enhancement.made
    /\ enhancement.request.enhancementType = "replicas"
    /\ enhancement.request.intensity = 7
    /\ ~enhancement.completion.rejected
    /\ enhancement.completion.choices[1].message.content.isNull
    /\ enhancement.result.content = ""
    /\ enhancement.result.nathanLevelIncrease = 10

(***************************************************************************)
(* Claims about errorHandler (checked under ErrorsSpec).                   *)
(***************************************************************************)

\* C15: errorHandler answers every error with exactly one response, with
\* success = false: for a RehearsalError or subclass the status is
\* err.statusCode and the code err.code; otherwise an error named
\* ValidationError gives 400 VALIDATION_ERROR, one named
\* PrismaClientKnownRequestError gives 500 DATABASE_ERROR, and any other
\* error gives 500 INTERNAL_ERROR.
C15_OneResponsePerError ==
    \A i \in 1..Len(handled) :
       LET err == handled[i].err
           sent == handled[i].sent
       IN  /\ Len(sent) = 1
           /\ sent[1].success = FALSE
           /\ IF err.rehearsal
              THEN sent[1].status = err.statusCode /\ sent[1].code = err.code
              ELSE IF err.name = "ValidationError"
              THEN sent[1].status = 400 /\ sent[1].code = "VALIDATION_ERROR"
              ELSE IF err.name = "PrismaClientKnownRequestError"
              THEN sent[1].status = 500 /\ sent[1].code = "DATABASE_ERROR"
              ELSE sent[1].status = 500 /\ sent[1].code = "INTERNAL_ERROR"

\* a ValidationError of the RehearsalError family, which two branches would
\* accept, and then a database error of another class
C15_Witness ==
    /\ Len(handled) = 2
    /\ handled[1].err.rehearsal /\ handled[1].err.name = "ValidationError"
    /\ handled[1].sent = <<ErrorResponse(400, "VALIDATION_ERROR")>>
    /\ handled[2].err = PlainError("PrismaClientKnownRequestError", "P2025")
    /\ handled[2].sent = <<ErrorResponse(500, "DATABASE_ERROR")>>

(***************************************************************************)
(* Claims about authenticateToken (checked under AuthSpec).                *)
(***************************************************************************)

\* the one error thrown has this status and code
ThrewOnly(outcome, status, code) ==
    /\ Len(outcome.thrown) = 1
    /\ outcome.thrown[1].rehearsal
    /\ outcome.thrown[1].statusCode = status
    /\ outcome.thrown[1].code = code

\* C19: authenticateToken calls next and sets req.user exactly when the
\* bearer token verifies against the configured secret; otherwise it throws
\* exactly one error and does not call next: 401 UNAUTHORIZED without a
\* token, 500 CONFIG_ERROR without a JWT_SECRET, 401 TOKEN_EXPIRED for an
\* expired token, 401 INVALID_TOKEN for any other invalid token.
C19_AuthenticationOutcomes ==
    \A i \in 1..Len(authLog) :
       LET e == authLog[i]
           verifies == Truthy(e.token) /\ Truthy(e.secret) /\ e.token.value = "good"
       IN  /\ e.outcome.next <=> verifies
           /\ e.outcome.user <=> verifies
           /\ verifies => e.outcome.thrown = <<>>
           /\ ~verifies =>
                 IF ~Truthy(e.token) THEN ThrewOnly(e.outcome, 401, "UNAUTHORIZED")
                 ELSE IF ~Truthy(e.secret) THEN ThrewOnly(e.outcome, 500, "CONFIG_ERROR")
                 ELSE IF e.token.value = "expired"
                 THEN ThrewOnly(e.outcome, 401, "TOKEN_EXPIRED")
                 ELSE ThrewOnly(e.outcome, 401, "INVALID_TOKEN")

(***************************************************************************)
(* Claims about the scripts routes (checked under RoutesSpec, and under    *)
(* RaceSpec for concurrent requests).                                      *)
(***************************************************************************)

\* the tables as they are now
Tables ==
    [scripts |-> scripts, scriptEnhancements |-> scriptEnhancements,
     scriptAnalyses |-> scriptAnalyses]

\* the tables when request i, answered or the latest, was last seen at work:
\* with one request at a time, what the next request found or what is there
TablesAfter(i) ==
    IF i < Len(requests) THEN requests[i + 1].before ELSE Tables

\* C11: every successful PUT /api/scripts/:id increments the script's
\* draftNumber by one and sets its nathanLevel to calculateNathanLevel of the
\* script's resulting text and enhancement list, whichever fields the update
\* carries.
C11_UpdateIncrementsAndRecomputes ==
    [][ \A i \in 1..Len(requests) :
          ( /\ turn' = i
            /\ requests[i].handler = "update"
            /\ requests[i].pc = "update"
            /\ requests'[i].response.status = 200 )
          => LET id == requests[i].path[1]
             IN  /\ scripts'[id].draftNumber = scripts[id].draftNumber + 1
                 /\ scripts'[id].nathanLevel =
                       calculateNathanLevel(scripts'[id].originalScript,
                                            scripts'[id].enhancements) ]_vars

\* C12: concurrent PUT and enhance requests on one script lose no draft
\* increment: once the requests made are all answered, the stored draftNumber
\* is its initial value plus the number of them that succeeded.
C12_NoLostDraftIncrement ==
    ( /\ \A i \in 1..Len(requests) : requests[i].pc = "done"
      /\ "s1" \in DOMAIN scripts )
    => scripts["s1"].draftNumber =
          InitialScripts["s1"].draftNumber
          + Cardinality({ i \in 1..Len(requests) :
                             /\ requests[i].handler \in {"update", "enhance"}
                             /\ requests[i].response.status = 200 })

\* C14: an authenticated GET /api/scripts/templates is answered by the
\* templates route with the success envelope of the three template
\* categories, for every user, and never by the GET /:id handler.
C14_TemplatesAnsweredByCatalogue ==
    \A i \in 1..Len(requests) :
       ( /\ requests[i].method = "GET"
         /\ requests[i].path = <<"templates">>
         /\ requests[i].pc = "done" )
       => /\ requests[i].response.answeredBy = "templates"
          /\ requests[i].response.status = 200
          /\ requests[i].response.success
          /\ requests[i].response.categories = TemplateCategories

\* a request on a script of the table that another user owns
Foreign(p) ==
    /\ p.handler \in {"get", "update", "delete", "enhance", "analyze"}
    /\ p.path[1] \in DOMAIN InitialScripts
    /\ InitialScripts[p.path[1]].userId # p.user

\* a foreign request reads and changes nothing and calls no completion
ForeignLeavesNoTrace(i) ==
    /\ requests[i].calls = 0
    /\ TablesAfter(i) = requests[i].before
    /\ requests[i].pc = "done" => requests[i].response.script = <<>>

\* C18 as stated: a request by user U on a script owned by a different user is
\* answered 404 SCRIPT_NOT_FOUND, returns no data of the script, makes no
\* external call and leaves the script and its records unchanged.
C18_ForeignRequestsGet404 ==
    \A i \in 1..Len(requests) :
       Foreign(requests[i]) =>
          /\ ForeignLeavesNoTrace(i)
          /\ requests[i].pc = "done" =>
                /\ requests[i].response.status = 404
                /\ requests[i].response.code = "SCRIPT_NOT_FOUND"

\* the body of a PUT or enhance request that its schema rejects
RejectedBody(p) ==
    \/ /\ p.handler = "update"
       /\ p.body.originalScript.has
       /\ Len(p.body.originalScript.value) < MinScriptLength
    \/ /\ p.handler = "enhance"
       /\ \/ ~p.body.enhancementType.has
          \/ p.body.enhancementType.value \notin EnhancementTypes
          \/ p.body.intensity.has /\ p.body.intensity.value \notin MinIntensity..MaxIntensity

\* C18: a request by user U on a script owned by a different user returns no
\* data of the script, makes no external call and leaves the script and its
\* records unchanged; it is answered 404 SCRIPT_NOT_FOUND, except that a PUT
\* or enhance request whose body the schema rejects is answered 400
\* VALIDATION_ERROR.
C18_ForeignRequestsAreRefused ==
    \A i \in 1..Len(requests) :
       Foreign(requests[i]) =>
          /\ ForeignLeavesNoTrace(i)
          /\ requests[i].pc = "done" =>
                IF RejectedBody(requests[i])
                THEN /\ requests[i].response.status = 400
                     /\ requests[i].response.code = "VALIDATION_ERROR"
                ELSE /\ requests[i].response.status = 404
                     /\ requests[i].response.code = "SCRIPT_NOT_FOUND"

\* another user's enhance request refused with 404, then their PUT with a
\* rejected body refused with 400, the owner's script still in place
C18_Witness ==
    /\ Len(requests) = 2
    /\ requests[1].user = "u2" /\ requests[1].handler = "enhance"
    /\ requests[1].response.status = 404
    /\ requests[2].user = "u2" /\ requests[2].handler = "update"
    /\ requests[2].pc = "done"
    /\ requests[2].response.status = 400
    /\ scripts = InitialScripts

\* the failures of an enhance request: its enhancementType is outside the six
\* kinds or its intensity outside 1..10; the user has no such script; the
\* completion call failed
EnhanceRejected(p) ==
    \/ ~p.body.enhancementType.has
    \/ p.body.enhancementType.value \notin EnhancementTypes
    \/ p.body.intensity.has /\ p.body.intensity.value \notin MinIntensity..MaxIntensity

EnhanceNotFound(p) ==
    \/ p.path[1] \notin DOMAIN p.before.scripts
    \/ p.before.scripts[p.path[1]].userId # p.user

EnhanceCallFailed(p) ==
    /\ p.calls = 1
    /\ p.ai = <<>>
    /\ ~p.response.success

\* C20: an enhance request that fails validation, or whose script is not
\* found, or whose completion call fails, leaves the script (enhancedScript,
\* draftNumber, nathanLevel) as it was and creates no ScriptEnhancement
\* record; in the first two cases no external call is made.
C20_FailedEnhanceChangesNothing ==
    \A i \in 1..Len(requests) :
       LET p == requests[i]
       IN  (p.handler = "enhance" /\ p.pc = "done") =>
              /\ (EnhanceRejected(p) \/ EnhanceNotFound(p)) =>
                    /\ ~p.response.success
                    /\ p.calls = 0
                    /\ TablesAfter(i).scripts = p.before.scripts
                    /\ TablesAfter(i).scriptEnhancements = p.before.scriptEnhancements
              /\ EnhanceCallFailed(p) =>
                    /\ TablesAfter(i).scripts = p.before.scripts
                    /\ TablesAfter(i).scriptEnhancements = p.before.scriptEnhancements

\* the owner's enhance request whose completion call failed, after an earlier
\* enhancement that succeeded: the script and the one record are as they were
C20_Witness ==
    /\ Len(requests) = 2
    /\ requests[1].handler = "enhance" /\ requests[1].response.status = 200
    /\ requests[2].handler = "enhance" /\ requests[2].pc = "done"
    /\ EnhanceCallFailed(requests[2])
    /\ requests[2].response.status = 500
    /\ Len(scriptEnhancements) = 1
    /\ scripts["s1"].draftNumber = 2

\* min(100, level + 5)
RaisedLevel(level) == IF level + 5 > 100 THEN 100 ELSE level + 5

\* the enhance requests that were answered with success
EnhancedOk(reqs) ==
    { i \in 1..Len(reqs) :
         /\ reqs[i].handler = "enhance"
         /\ reqs[i].pc = "done"
         /\ reqs[i].response.status = 200 }

\* C21: an enhance request that succeeds stores nathanLevel = min(100, the
\* level it read + 5) and draftNumber = the draft it read + 1, whatever the
\* requested intensity, and then writes exactly one ScriptEnhancement record,
\* with nathanLevelBefore the level read and nathanLevelAfter = min(100,
\* nathanLevelBefore + 5); no other step of the request writes a record, and
\* while the script exists every enhance request that has been answered after
\* its update has its record: the records are as many as the successes.
C21_EnhanceRaisesAndLogs ==
    [][ /\ \A i \in 1..Len(requests) :
             (turn' = i /\ requests[i].handler = "enhance") =>
                LET p == requests[i]
                    q == requests'[i]
                    id == p.path[1]
                IN  /\ q.pc = "done" /\ q.response.status = 200 => p.pc = "create"
                    /\ IF p.pc = "update" /\ q.pc = "create"
                       THEN /\ scripts'[id].nathanLevel =
                                  RaisedLevel(p.existing[1].nathanLevel)
                            /\ scripts'[id].draftNumber =
                                  p.existing[1].draftNumber + 1
                            /\ scriptEnhancements' = scriptEnhancements
                       ELSE IF p.pc = "create" /\ q.response.status = 200
                       THEN /\ Len(scriptEnhancements') = Len(scriptEnhancements) + 1
                            /\ SubSeq(scriptEnhancements', 1, Len(scriptEnhancements))
                                  = scriptEnhancements
                            /\ LET rec == scriptEnhancements'[Len(scriptEnhancements')]
                               IN  /\ rec.scriptId = id
                                   /\ rec.nathanLevelBefore = p.existing[1].nathanLevel
                                   /\ rec.nathanLevelAfter =
                                         RaisedLevel(rec.nathanLevelBefore)
                            /\ scripts' = scripts
                       ELSE /\ scriptEnhancements' = scriptEnhancements
                            /\ scripts' = scripts
        /\ \A id \in DOMAIN scripts' :
             /\ Len(SelectSeq(scriptEnhancements', LAMBDA rec : rec.scriptId = id))
                   = Cardinality(EnhancedOk(requests'))
             /\ \A i \in 1..Len(requests') :
                   (requests'[i].handler = "enhance" /\ requests'[i].ai # <<>>)
                   => \/ requests'[i].pc \in {"update", "create"}
                      \/ i \in EnhancedOk(requests') ]_vars

\* two enhancements of a script at level 99, one at intensity 1 and one at
\* intensity 7: both stop at 100, and each has its record
C21_Witness ==
    /\ Len(requests) = 2
    /\ EnhancedOk(requests) = {1, 2}
    /\ IntensityOf(requests[1].body) = 1
    /\ IntensityOf(requests[2].body) = 7
    /\ "s1" \in DOMAIN scripts
    /\ scripts["s1"].nathanLevel = 100
    /\ Len(scriptEnhancements) = 2
    /\ scriptEnhancements[1].nathanLevelBefore = 99
    /\ scriptEnhancements[1].nathanLevelAfter = 100
    /\ scriptEnhancements[2].nathanLevelAfter = 100


(***************************************************************************)
(* Claims about the attempt counter (checked under AttemptsSpec).          *)
(***************************************************************************)

\* the run state and display selectScenario may write
appStateOfRun ==
    <<currentScenario, currentScene, playerStats, conversationHistory,
      breakthroughs, rehearsalAttempts, storyScene, choiceButtons,
      interfaceVisible, timers>>

\* C22: rehearsalAttempts[s] counts the selectScenario(s) calls with a known
\* id s: each such call, and each tryAgain, adds exactly one to the count of
\* the scenario it starts and changes no other count; showScenarioSelection,
\* makeChoice and the timers never change the counts; a selectScenario call
\* that starts no known scenario changes no app state at all.
C22_AttemptsCountSelections ==
    [][ /\ last'.op \in {"showScenarioSelection", "makeChoice", "fire", "tick"}
            => rehearsalAttempts' = rehearsalAttempts
        /\ last'.op = "tryAgain"
            => /\ currentScenario' = currentScenario
               /\ currentScenario \in ScenarioIds
               /\ rehearsalAttempts' =
                     [rehearsalAttempts EXCEPT ![currentScenario] = @ + 1]
        /\ last'.op = "selectScenario"
            => \/ /\ currentScenario' \in ScenarioIds
                  /\ rehearsalAttempts' =
                        [rehearsalAttempts EXCEPT ![currentScenario'] = @ + 1]
               \/ UNCHANGED appStateOfRun ]_vars


(***************************************************************************)
(* Claims about the message lists of the server (checked under             *)
(* ServerSpec).                                                            *)
(***************************************************************************)

\* a message list made of pairs: a 'user' message, then one reply of role
\* 'system' or 'ai'
Alternates(messages) ==
    /\ Len(messages) % 2 = 0
    /\ \A i \in 1..Len(messages) :
          IF i % 2 = 1 THEN messages[i].role = "user"
          ELSE messages[i].role \in {"system", "ai"}

\* C23: after every message request the message list of every conversation
\* alternates in pairs of a 'user' message and its reply (role 'system' for
\* crisis, 'ai' otherwise); an accepted request appends exactly one such pair
\* to its own conversation and touches no other conversation, and a request
\* that is not accepted appends nothing.
C23_MessagesAlternate ==
    [][ request'.route = "messages" =>
          /\ \A c \in 1..Len(conversations') :
                Alternates(conversations'[c].messages)
          /\ IF response'.status = 200
             THEN LET before == conversations[request'.id].messages
                      after == conversations'[request'.id].messages
                  IN  /\ Len(after) = Len(before) + 2
                      /\ SubSeq(after, 1, Len(before)) = before
                      /\ after[Len(after) - 1] =
                            [role |-> "user",
                             content |-> Trim(request'.body.message)]
                      /\ after[Len(after)] = response'.response
                      /\ response'.response.role =
                            IF response'.isCrisis THEN "system" ELSE "ai"
                      /\ conversations' =
                            [conversations EXCEPT ![request'.id].messages = after]
             ELSE conversations' = conversations ]_vars


(***************************************************************************)
(* Claims about the scene a history entry records (checked under Spec).    *)
(***************************************************************************)

\* C24: every conversationHistory entry records the scene in which its
\* choice was offered: the entry makeChoice appends has as scene the id of
\* the scene on display whose buttons offered the choice (the start scene of
\* startConversation for the first choice of a run, the resolved next scene
\* afterwards), also in scenarios that have no scene with id 'intro'.
C24_EntryRecordsDisplayedScene ==
    [][ last'.op = "makeChoice" =>
          /\ conversationHistory'[Len(conversationHistory')].scene
                = choiceButtons.scene
          /\ conversationHistory'[Len(conversationHistory')].scene
                = storyScene.scene ]_vars

====
